---------------------------- MODULE Spec2Model ----------------------------
(***************************************************************************)
(* A model of the Hunger Games simulator: the Game state machine           *)
(* (AdvanceGame), the round simulation (DoRoundImpl), the event            *)
(* constructor and the message composer.                                   *)
(*                                                                         *)
(* Strings are sequences of one-character strings.  Tributes are the       *)
(* numbers 1..n; a GameRound is referred to by its index.  Math.random()   *)
(* is a nondeterministic choice over the outcomes the comparison it feeds  *)
(* can have.                                                               *)
(***************************************************************************)
EXTENDS Integers, Sequences, FiniteSets, TLC

(***************************************************************************)
(* Bounds of the model.                                                    *)
(***************************************************************************)
\* Rounds explored for a roster of at most two tributes.
MaxRounds == 8
\* Rounds explored for a larger roster.
MaxRoundsLarge == 4
\* Rounds explored for a game without events, whose rounds change nothing
\* but the stage: enough for two feasts, five and seven rounds apart.
MaxRoundsQuiet == 13

(***************************************************************************)
(* utils: characters and digits.                                           *)
(***************************************************************************)
Digits == <<"0", "1", "2", "3", "4", "5", "6", "7", "8", "9">>

\* isdigit(char) for a character that exists.
isdigit(c) == \E k \in 1..10 : Digits[k] = c

\* m[i].charCodeAt(0) - char_zero, for a digit.
DigitValue(c) == (CHOOSE k \in 1..10 : Digits[k] = c) - 1

PronounLetters == {"N", "A", "G", "R"}
SuffixLetters == {"s", "y", "i", "h", "e", "!", "w"}

\* The character class [NAGRsyih!] of the regular expression in
\* CalculateTributesInvolved.
RegexLetters == {"N", "A", "G", "R", "s", "y", "i", "h", "!"}

Max(a, b) == IF a >= b THEN a ELSE b

\* m.slice(from, to) with zero-based, end-exclusive indices.
Slice(m, from, to) == IF to <= from THEN << >> ELSE SubSeq(m, from + 1, to)

\* Characters removed by String.prototype.trim.
IsBlank(c) == c = " "

RECURSIVE TrimLeft(_)
TrimLeft(m) ==
    IF m # << >> /\ IsBlank(Head(m)) THEN TrimLeft(Tail(m)) ELSE m

RECURSIVE TrimRight(_)
TrimRight(m) ==
    IF m # << >> /\ IsBlank(m[Len(m)])
    THEN TrimRight(SubSeq(m, 1, Len(m) - 1)) ELSE m

Trim(m) == TrimRight(TrimLeft(m))

(***************************************************************************)
(* events: CalculateTributesInvolved.  The global match of                 *)
(* /%[NAGRsyih!]?(\d)/ takes the leftmost matches, left to right, without  *)
(* overlap; the result is 1 + the largest digit matched, 0 without a       *)
(* match.  `best` is -1 while nothing has matched.                         *)
(***************************************************************************)
RECURSIVE MatchScan(_, _, _)
MatchScan(m, i, best) ==
    IF i > Len(m) THEN best
    ELSE IF m[i] # "%" THEN MatchScan(m, i + 1, best)
    ELSE IF i + 1 <= Len(m) /\ isdigit(m[i + 1])
         THEN MatchScan(m, i + 2, Max(best, DigitValue(m[i + 1])))
    ELSE IF i + 2 <= Len(m) /\ m[i + 1] \in RegexLetters /\ isdigit(m[i + 2])
         THEN MatchScan(m, i + 3, Max(best, DigitValue(m[i + 2])))
    ELSE MatchScan(m, i + 1, best)

CalculateTributesInvolved(raw_message) ==
    LET v_raw == MatchScan(raw_message, 1, -1)
    IN  IF v_raw = -1 THEN 0 ELSE v_raw + 1


(***************************************************************************)
(* tribute: the roster.  Tribute t of a game is TributeOptions[t]; its     *)
(* mutable fields (kills, died_in_round) are variables of the game.        *)
(* A tag is its id.                                                        *)
(***************************************************************************)
TributeOptions ==
    << [uses_pronouns |-> TRUE,  plural |-> FALSE, tags |-> {1}],
       [uses_pronouns |-> FALSE, plural |-> FALSE, tags |-> {}],
       [uses_pronouns |-> TRUE,  plural |-> TRUE,  tags |-> {1, 2}] >>

\* Tribute.has(t): Tag.equal compares ids.
TributeHas(t, tag) == \E x \in TributeOptions[t].tags : x = tag

(***************************************************************************)
(* eventMessage: ComposeEventMessage.  A segment of the composed message   *)
(* is a NameSpan ([kind |-> "name"]) or a string: a slice of the template  *)
(* ([kind |-> "lit"]) or the text of a pronoun or agreement placeholder    *)
(* ([kind |-> "text"], the text given as a sequence of tokens).            *)
(***************************************************************************)
NameSegment(t) == [kind |-> "name", who |-> t, text |-> << >>]
LitSegment(s) == [kind |-> "lit", who |-> 0, text |-> s]
TextSegment(t, s) == [kind |-> "text", who |-> t, text |-> s]

\* The inner switch (c) of ComposeEventMessage for tribute t.
PlaceholderText(c, t) ==
    LET tribute == TributeOptions[t]
    IN  CASE c = "N" -> IF tribute.uses_pronouns THEN <<"nominative">> ELSE <<"raw_name">>
          [] c = "A" -> IF tribute.uses_pronouns THEN <<"accusative">> ELSE <<"raw_name">>
          [] c = "G" -> IF tribute.uses_pronouns THEN <<"genitive">> ELSE <<"raw_name", "'s">>
          [] c = "R" -> IF tribute.uses_pronouns THEN <<"reflexive">> ELSE <<"raw_name">>
          [] c = "e" -> IF tribute.plural THEN << >> ELSE <<"es">>
          [] c = "s" -> IF tribute.plural THEN << >> ELSE <<"s">>
          [] c = "y" -> IF tribute.plural THEN <<"y">> ELSE <<"ies">>
          [] c = "i" -> IF tribute.plural THEN <<"are">> ELSE <<"is">>
          [] c = "h" -> IF tribute.plural THEN <<"have">> ELSE <<"has">>
          [] c = "!" -> IF tribute.plural THEN <<"aren't">> ELSE <<"isn't">>
          [] c = "w" -> IF tribute.plural THEN <<"were">> ELSE <<"was">>

\* check_bounds(event, index) throws.
check_bounds(players_involved, index) == index >= players_involved

\* The first index >= i of a "%" in m, or m.length (indices are zero-based).
RECURSIVE ScanLiteral(_, _)
ScanLiteral(m, i) ==
    IF i < Len(m) /\ m[i + 1] # "%" THEN ScanLiteral(m, i + 1) ELSE i

\* if (prev < m.length) composed.push(m.slice(prev)); return composed
ComposeReturn(m, prev, composed) ==
    [error |-> "none",
     message |-> IF prev < Len(m)
                 THEN Append(composed, LitSegment(Slice(m, prev, Len(m))))
                 ELSE composed]

ComposeThrow(kind) == [error |-> kind, message |-> << >>]

\* One iteration of the loop `outer` of ComposeEventMessage and all that
\* follow it.  n is event.event.players_involved, players the tributes of
\* the GameEvent; prev and i are the zero-based indices of the code.
\* error is "bounds" when check_bounds throws and "type" when isdigit is
\* called with m[i] undefined (a TypeError).
RECURSIVE ComposeLoop(_, _, _, _, _, _)
ComposeLoop(m, n, players, prev0, i0, composed0) ==
    LET i1 == ScanLiteral(m, i0)
        composed == Append(composed0, LitSegment(Slice(m, prev0, i1)))
        prev == i1
        i == i1 + 1
    IN  IF i1 >= Len(m) THEN ComposeReturn(m, prev, composed)
        ELSE IF i >= Len(m) THEN ComposeReturn(m, prev, composed)
        ELSE IF isdigit(m[i + 1])
        THEN LET index == DigitValue(m[i + 1])
             IN  IF check_bounds(n, index) THEN ComposeThrow("bounds")
                 ELSE LET pushed == Append(composed, NameSegment(players[index + 1]))
                      IN  IF i + 1 >= Len(m)
                          THEN ComposeReturn(m, prev, pushed)
                          ELSE ComposeLoop(m, n, players, i + 1, i + 1, pushed)
        ELSE IF m[i + 1] \in PronounLetters \cup SuffixLetters
        THEN LET c == m[i + 1]
                 j == i + 1
             IN  IF j >= Len(m) THEN ComposeThrow("type")
                 ELSE IF isdigit(m[j + 1])
                 THEN LET index == DigitValue(m[j + 1])
                      IN  IF check_bounds(n, index) THEN ComposeThrow("bounds")
                          ELSE ComposeLoop(m, n, players, j + 1, j + 1,
                                   Append(composed,
                                          TextSegment(players[index + 1],
                                                      PlaceholderText(c, players[index + 1]))))
                 ELSE ComposeLoop(m, n, players, prev, j, composed)
        ELSE ComposeLoop(m, n, players, prev, i, composed)

\* ComposeEventMessage of the GameEvent (event, players).
ComposeEventMessage(event, players) ==
    ComposeLoop(event.message, event.players_involved, players, 0, 0, << >>)

(***************************************************************************)
(* events: the Event constructor and Event.require.                        *)
(***************************************************************************)
\* Mutant of SlotTooLarge: the comparison is off by one.
SlotTooLargeStrict(slots, players_involved) ==
    \E k \in 1..Len(slots) : slots[k] > players_involved

\* Math.max(...slots) >= players_involved; Math.max() of nothing is -Infinity.
SlotTooLarge(slots, players_involved) ==
    \E k \in 1..Len(slots) : slots[k] >= players_involved

\* The constructor throws.
EventThrows(message, fatalities, killers) ==
    LET players_involved == CalculateTributesInvolved(message)
    IN  \/ Len(Trim(message)) = 0
        \/ players_involved < 1
        \/ players_involved > 9
        \/ SlotTooLarge(fatalities, players_involved)
        \/ SlotTooLarge(killers, players_involved)

\* new Event(message, fatalities, killers), when it does not throw.
NewEvent(message, fatalities, killers) ==
    [message |-> Trim(message),
     players_involved |-> CalculateTributesInvolved(message),
     fatalities |-> fatalities,
     killers |-> killers,
     enabled |-> TRUE,
     requirements |-> << >>]

\* event.require(tag, player_index) throws.
RequireThrows(event, player_index) == player_index >= event.players_involved

\* event.require(tag, player_index), when it does not throw.
Require(event, tag, player_index) ==
    IF \E k \in 1..Len(event.requirements) :
           /\ event.requirements[k].tag = tag
           /\ event.requirements[k].player_index = player_index
    THEN event
    ELSE [event EXCEPT !.requirements =
              Append(@, [tag |-> tag, player_index |-> player_index])]

(***************************************************************************)
(* The events and event lists the games are constructed from.  Fatality,   *)
(* killer and requirement slots are natural numbers.                       *)
(***************************************************************************)
\* "%0"
MessageSolo == <<"%", "0">>
\* "%0&%1"
MessagePair == <<"%", "0", "&", "%", "1">>
\* "%0&%1&%2"
MessageTrio == <<"%", "0", "&", "%", "1", "&", "%", "2">>
\* "%0%w1": the constructor counts one tribute, the composer wants two.
MessageFaulty == <<"%", "0", "%", "w", "1">>

EventSurvive == NewEvent(MessageSolo, << >>, << >>)
EventAccident == NewEvent(MessageSolo, <<0>>, << >>)
EventKill == NewEvent(MessagePair, <<1>>, <<0>>)
EventTrio == NewEvent(MessageTrio, <<2>>, <<0, 1>>)
\* The first tribute is named in two killer slots.
EventDoubleCredit == NewEvent(MessagePair, <<1>>, <<0, 0>>)
EventFaulty == NewEvent(MessageFaulty, <<0>>, << >>)
EventTagged == Require(NewEvent(MessageSolo, << >>, << >>), 2, 0)
EventTaggedPair == Require(NewEvent(MessagePair, << >>, << >>), 2, 1)
EventDisabled == [NewEvent(MessageSolo, <<0>>, << >>) EXCEPT !.enabled = FALSE]

EventCatalogue ==
    {EventSurvive, EventAccident, EventKill, EventTrio, EventDoubleCredit,
     EventFaulty, EventTagged,
     EventTaggedPair, EventDisabled}

NoEvents == [all |-> << >>, bloodbath |-> << >>, day |-> << >>,
             night |-> << >>, feast |-> << >>]

\* The EventList options a Game is constructed with.
EventLists ==
    { NoEvents,
      [NoEvents EXCEPT !.all = <<EventSurvive, EventDisabled>>],
      [NoEvents EXCEPT !.bloodbath = <<EventSurvive, EventKill>>, !.day = <<EventKill>>],
      [NoEvents EXCEPT !.night = <<EventSurvive, EventAccident>>],
      [NoEvents EXCEPT !.day = <<EventTrio, EventSurvive>>],
      [NoEvents EXCEPT !.bloodbath = <<EventDoubleCredit, EventSurvive>>,
                       !.day = <<EventKill>>],
      [NoEvents EXCEPT !.bloodbath = <<EventFaulty>>,
                       !.day = <<EventTagged, EventTaggedPair>>,
                       !.night = <<EventAccident, EventFaulty>>] }

\* Roster sizes of the games.
RosterSizes == {1, 2, 3}

\* GameSettings.value: required_fatalities_mode and required_fatalities.
FatalitySettings ==
    { [mode |-> "Disable",  value |-> 0],
      [mode |-> "Percent",  value |-> 0],
      [mode |-> "Percent",  value |-> 50],
      [mode |-> "Absolute", value |-> 0],
      [mode |-> "Absolute", value |-> 1],
      [mode |-> "Absolute", value |-> 2] }

\* fatality_reroll_rate, in hundredths.
RerollRates == {0, 60, 100}

\* The value of a field that is undefined.
Undefined == -1

\* GameSettings.value.starting_day.
StartingDays == {Undefined, 3}

(***************************************************************************)
(* game: the state of one Game.                                            *)
(***************************************************************************)
VARIABLES
    tributes,              \* Game.tributes: the roster, tributes 1..n
    tributes_alive,        \* Game.tributes_alive
    tributes_died,         \* Game.#tributes_died
    state,                 \* Game.#state
    game_title,            \* Game.#game_title
    last_feast,            \* Game.last_feast
    stage,                 \* Game.stage
    all_won,               \* Game.all_won
    rounds,                \* Game.rounds
    days_passed,           \* Game.days_passed
    nights_passed,         \* Game.nights_passed
    event_list,            \* Game.event_list
    required_fatalities,   \* Game.required_fatalities
    fatality_reroll_rate,  \* Game.fatality_reroll_rate
    kills,                 \* Tribute.kills of every tribute
    died_in_round,         \* Tribute.died_in_round of every tribute (a round index)
    result,                \* what the last AdvanceGame() call returned
    held,                  \* the lists of the snapshot returned by the call before
                           \* the last one, as the caller who kept it reads them now
    made,                  \* the last new Event(...) call and the Event it made
    require_call,          \* the last event.require(...) call
    composition,           \* the last ComposeEventMessage(...) call
    registered_tags,       \* Tag.registered_tags: the ids of the registered tags
    tag_names,             \* Tag.__name of every Tag created, tag id k at k + 1
    next_id,               \* Tag.__next_id
    tag_ids,               \* Tag.id of every Tag created, in the order of creation
    tag_call,              \* the last call on the tag registry
    pc,                    \* where the AdvanceGame() call followed step by step is
    locals                 \* the local variables of its #DoRoundImpl, and the
                           \* events it has drawn (draws) since tries was 0

game_vars == <<tributes, tributes_alive, tributes_died, state, game_title, last_feast,
               stage, all_won, rounds, days_passed, nights_passed, event_list,
               required_fatalities, fatality_reroll_rate, kills, died_in_round, result,
               held>>

\* The variables of the event factory.
event_vars == <<made, require_call, composition>>

\* The variables of the tag registry.
tag_vars == <<registered_tags, tag_names, next_id, tag_ids, tag_call>>

\* The locals of the #DoRoundImpl call that is followed step by step.
round_vars == <<pc, locals>>

vars == <<game_vars, event_vars, tag_vars, round_vars>>

\* No call is followed step by step.
NoRoundCall ==
    /\ pc = "idle"
    /\ locals = [current_tribute |-> 0, tributes_left |-> 0, tributes_alive |-> 0,
                 died_this_round |-> 0, tries |-> 0, draws |-> 0,
                 exhausted |-> FALSE]

\* static __next_id = 0; static registered_tags: Tag[] = []
NoTags ==
    /\ registered_tags = << >>
    /\ tag_names = << >>
    /\ next_id = 0
    /\ tag_ids = << >>
    /\ tag_call = [op |-> "none"]

\* No Event has been constructed, nothing composed.
NoEventCalls ==
    /\ made = [status |-> "none"]
    /\ require_call = [status |-> "none"]
    /\ composition = [status |-> "none"]

GameStates == {"DEAD", "NEW_ROUND", "IN_ROUND", "THE_FALLEN", "END_RESULTS",
               "END_WINNER", "END_SUMMARY_FATALITIES", "END_SUMMARY_STATS", "END"}

Title(text, number) == [text |-> text, number |-> number]

\* clamp(x, lo, hi)
clamp(x, lo, hi) == IF x < lo THEN lo ELSE IF x > hi THEN hi ELSE x

\* The constructor's required_fatalities for n tributes;
\* Math.ceil(c / 100.0 * n) is (c * n + 99) \div 100 for integers.
RequiredFatalities(opts, n) ==
    IF opts.mode = "Disable" THEN Undefined
    ELSE IF opts.mode = "Percent"
         THEN (clamp(opts.value, 0, 100) * n + 99) \div 100
         ELSE Max(0, opts.value)

\* Math.max(0, Math.floor(opts.starting_day - 1)), or 0 without a starting day.
StartingDay(starting_day) ==
    IF starting_day = Undefined THEN 0 ELSE Max(0, starting_day - 1)

\* list.filter(e => e.enabled)
RECURSIVE FilterEnabled(_)
FilterEnabled(list) ==
    IF list = << >> THEN << >>
    ELSE IF Head(list).enabled THEN <<Head(list)>> \o FilterEnabled(Tail(list))
    ELSE FilterEnabled(Tail(list))

\* Game.#AddEvents into the empty event lists.
AddEvents(event_option_list) ==
    [key \in {"bloodbath", "day", "night", "feast"} |->
        FilterEnabled(event_option_list.all) \o FilterEnabled(event_option_list[key])]

\* new Game(tributes, events, fatality_reroll_rate) under the ambient settings.
Init ==
    \E n \in RosterSizes, events \in EventLists, opts \in FatalitySettings,
       rate \in RerollRates, starting_day \in StartingDays :
        /\ tributes = [t \in 1..n |-> t]
        /\ tributes_alive = [t \in 1..n |-> t]
        /\ tributes_died = << >>
        /\ state = "NEW_ROUND"
        /\ game_title = Title("", 0)
        /\ last_feast = 0
        /\ stage = "bloodbath"
        /\ all_won = FALSE
        /\ rounds = << >>
        /\ days_passed = StartingDay(starting_day)
        /\ nights_passed = StartingDay(starting_day)
        /\ event_list = AddEvents(events)
        /\ required_fatalities = RequiredFatalities(opts, n)
        /\ fatality_reroll_rate = rate
        /\ kills = [t \in 1..n |-> 0]
        /\ died_in_round = [t \in 1..n |-> Undefined]
        /\ result = [kind |-> "none"]
        /\ held = [kind |-> "none"]
        /\ NoEventCalls
        /\ NoTags
        /\ NoRoundCall

(***************************************************************************)
(* utils: shuffle.  randomInt(0, i) is a number of 0..i-1.                 *)
(***************************************************************************)
\* randomInt(from, to): the values Math.floor(Math.random() * (to - from)) + from takes.
randomInt(from, to) == from..(to - 1)

Swap(array, a, b) == [array EXCEPT ![a] = array[b], ![b] = array[a]]

\* The loop of shuffle from index i (zero-based) downwards.
RECURSIVE ShuffleFrom(_, _)
ShuffleFrom(array, i) ==
    IF i <= 0 THEN {array}
    ELSE UNION { ShuffleFrom(Swap(array, i + 1, j + 1), i - 1) : j \in randomInt(0, i) }

\* The arrays shuffle(array) can leave.
shuffle(array) ==
    IF Len(array) < 2 THEN {array} ELSE ShuffleFrom(array, Len(array) - 1)

(***************************************************************************)
(* game: stage progression.                                                *)
(***************************************************************************)
\* Mutant of FeastPossible: a feast is possible from three rounds on.
FeastPossibleEarly(rounds_since_feast) == rounds_since_feast >= 3

\* if (rounds_since_feast >= 5)
FeastPossible(rounds_since_feast) == rounds_since_feast >= 5

\* Mutant of FeastThreshold: the factor (rounds_since_feast - 4) is lost.
FeastThresholdFlat(rounds_since_feast) ==
    IF rounds_since_feast >= 7 THEN 50
    ELSE IF rounds_since_feast >= 6 THEN 33
    ELSE 25

\* The factor Math.random() is compared with, in hundredths.
FeastThreshold(rounds_since_feast) ==
    IF rounds_since_feast >= 7 THEN 50 * (rounds_since_feast - 4)
    ELSE IF rounds_since_feast >= 6 THEN 33 * (rounds_since_feast - 4)
    ELSE 25 * (rounds_since_feast - 4)

\* Mutant of MaySkipFeast: the feast can be skipped however long ago the last was.
MaySkipFeastAlways(rounds_since_feast) == TRUE

\* Math.random() > threshold can be true: Math.random() is in [0, 1).
MaySkipFeast(rounds_since_feast) == FeastThreshold(rounds_since_feast) < 100

\* Game.#AdvanceGameStage: the stages it can return with the counters it leaves.
AdvanceGameStage(n_rounds, cur_stage, cur_last_feast, days, nights) ==
    LET same == [stage |-> cur_stage, last_feast |-> cur_last_feast,
                 days_passed |-> days, nights_passed |-> nights]
        day == [same EXCEPT !.stage = "day", !.days_passed = days + 1]
    IN  IF n_rounds = 0 THEN {[same EXCEPT !.stage = "bloodbath"]}
        ELSE IF cur_stage = "feast" \/ cur_stage = "bloodbath" THEN {day}
        ELSE IF cur_stage = "night"
        THEN LET rounds_since_feast == n_rounds - cur_last_feast
             IN  IF FeastPossible(rounds_since_feast)
                 THEN {[same EXCEPT !.stage = "feast", !.last_feast = n_rounds]}
                      \cup (IF MaySkipFeast(rounds_since_feast) THEN {day} ELSE {})
                 ELSE {day}
        ELSE {[same EXCEPT !.stage = "night", !.nights_passed = nights + 1]}

(***************************************************************************)
(* game: event selection.                                                  *)
(***************************************************************************)
\* if (this.required_fatalities): neither undefined nor 0.
HasRequiredFatalities(required) == required # Undefined /\ required # 0

\* Math.random() < fatality_reroll_rate: the values it can take.
Reroll(rate) ==
    IF rate <= 0 THEN {FALSE} ELSE IF rate >= 100 THEN {TRUE} ELSE {TRUE, FALSE}

\* Mutant of TagsSatisfied: the loop over the requirements does not run.
TagsSatisfiedIgnored(event, alive, current_tribute) == TRUE

\* The loop over event.requirements: every required tag is there.
TagsSatisfied(event, alive, current_tribute) ==
    \A k \in 1..Len(event.requirements) :
        TributeHas(alive[current_tribute + event.requirements[k].player_index + 1],
                   event.requirements[k].tag)

\* Mutant of RequirementsSatisfied: an event without a fatality is not
\* rejected while the round is below the target.
RequirementsSatisfiedNoDrive(event, alive, current_tribute, tributes_left, died_this_round, required, rate) ==
    IF event.players_involved > tributes_left THEN {FALSE}
    ELSE IF HasRequiredFatalities(required)
    THEN IF died_this_round >= required /\ Len(event.fatalities) # 0
         THEN {FALSE}
         ELSE {TagsSatisfied(event, alive, current_tribute)}
    ELSE IF Len(event.fatalities) # 0
    THEN { IF reroll THEN FALSE ELSE TagsSatisfied(event, alive, current_tribute) :
             reroll \in Reroll(rate) }
    ELSE {TagsSatisfied(event, alive, current_tribute)}

\* Game.#RequirementsSatisfied: the values it can return.
RequirementsSatisfied(event, alive, current_tribute, tributes_left, died_this_round, required, rate) ==
    IF event.players_involved > tributes_left THEN {FALSE}
    ELSE IF HasRequiredFatalities(required)
    THEN IF \/ died_this_round < required /\ Len(event.fatalities) = 0
            \/ died_this_round >= required /\ Len(event.fatalities) # 0
         THEN {FALSE}
         ELSE {TagsSatisfied(event, alive, current_tribute)}
    ELSE IF Len(event.fatalities) # 0
    THEN { IF reroll THEN FALSE ELSE TagsSatisfied(event, alive, current_tribute) :
             reroll \in Reroll(rate) }
    ELSE {TagsSatisfied(event, alive, current_tribute)}

\* The attempt budget of the do-while loop.
DrawBudget(pool) == Max(100, Len(pool) * 10)

\* The do-while loop of DoRoundImpl: the index in the pool of the event it
\* can leave the loop with, and 0 when it can run out of attempts (every
\* draw can be an event that is rejected).
DrawEvent(pool, alive, current_tribute, tributes_left, died_this_round, required, rate) ==
    LET Outcomes(k) == RequirementsSatisfied(pool[k], alive, current_tribute,
                                             tributes_left, died_this_round,
                                             required, rate)
    IN  {k \in 1..Len(pool) : TRUE \in Outcomes(k)}
        \cup (IF \E k \in 1..Len(pool) : FALSE \in Outcomes(k) THEN {0} ELSE {})

\* for (const f of event.fatalities) ..., from the k-th fatality on.
RECURSIVE HandleFatalities(_, _, _, _)
HandleFatalities(s, event, index, k) ==
    IF k > Len(event.fatalities) THEN s
    ELSE LET t == s.alive[s.current_tribute + event.fatalities[k] + 1]
         IN  HandleFatalities(
                 [s EXCEPT !.died_in_round[t] = index,
                           !.round_died = Append(@, t),
                           !.tributes_alive = @ - 1,
                           !.died_this_round = @ + 1],
                 event, index, k + 1)

\* Mutant of CreditKillers: a tribute is credited once, in however many
\* killer slots it is.
CreditKillersOnce(s, event, k) ==
    [s EXCEPT !.kills =
        [t \in DOMAIN s.kills |->
           IF \E j \in k..Len(event.killers) :
                 s.alive[s.current_tribute + event.killers[j] + 1] = t
           THEN s.kills[t] + Len(event.fatalities)
           ELSE s.kills[t]]]

\* for (const k of event.killers) ..., from the k-th killer on.
RECURSIVE CreditKillers(_, _, _)
CreditKillers(s, event, k) ==
    IF k > Len(event.killers) THEN s
    ELSE LET t == s.alive[s.current_tribute + event.killers[k] + 1]
         IN  CreditKillers([s EXCEPT !.kills[t] = @ + Len(event.fatalities)],
                           event, k + 1)

\* The body of the loop `outer` once an event is chosen; new GameEvent()
\* composes the message and may throw.
AcceptEvent(s0, event, index) ==
    LET s1 == [s0 EXCEPT !.tributes_left = @ - event.players_involved]
        s2 == HandleFatalities(s1, event, index, 1)
        s3 == CreditKillers(s2, event, 1)
        last == s3.current_tribute + event.players_involved
        tributes_involved == SubSeq(s3.alive, s3.current_tribute + 1, last)
        s4 == [s3 EXCEPT !.current_tribute = last]
        composed == ComposeEventMessage(event, tributes_involved)
    IN  IF composed.error # "none" THEN [s4 EXCEPT !.error = composed.error]
        ELSE [s4 EXCEPT !.game_events =
                  Append(@, [event |-> event,
                             players_involved |-> tributes_involved,
                             message |-> composed.message])]

\* Mutant of WinnerDecided: the loop goes on while someone is alive.
WinnerDecidedAtNone(alive_count) == alive_count < 1

\* if (tributes_alive < 2) break
WinnerDecided(alive_count) == alive_count < 2

\* Mutant of BudgetExhausted: the attempts are not limited.
BudgetExhaustedNever(attempts, pool) == FALSE

\* if (tries++ > Math.max(100, event_list.length * 10)) break outer, for the
\* value tries has before the increment.
BudgetExhausted(attempts, pool) == attempts > DrawBudget(pool)

\* The loop `outer` of DoRoundImpl: the states it can end in.
RECURSIVE RoundLoop(_, _, _, _, _)
RoundLoop(s, pool, index, required, rate) ==
    IF s.tributes_left = 0 THEN {s}
    ELSE UNION {
        IF d = 0 THEN {s}
        ELSE LET after == AcceptEvent(s, pool[d], index)
             IN  IF after.error # "none" THEN {after}
                 ELSE IF WinnerDecided(after.tributes_alive) THEN {after}
                 ELSE RoundLoop(after, pool, index, required, rate) :
        d \in DrawEvent(pool, s.alive, s.current_tribute, s.tributes_left,
                        s.died_this_round, required, rate) }

\* Mutant of RoundTitle: the night is numbered one ahead.
RoundTitleNightAhead(cur_stage, days, nights) ==
    IF cur_stage = "day" THEN Title("Day", days)
    ELSE IF cur_stage = "night" THEN Title("Night", nights + 1)
    ELSE Title(cur_stage, 0)

\* The title DoRoundImpl sets; TitleCase(stage) is the stage's name.
RoundTitle(cur_stage, days, nights) ==
    IF cur_stage = "day" THEN Title("Day", days)
    ELSE IF cur_stage = "night" THEN Title("Night", nights)
    ELSE Title(cur_stage, 0)

\* Mutant of FilterAlive: the alive list is not filtered.
FilterAliveKeepsAll(alive, died) == alive

\* tributes_alive.filter(t => t.died_in_round === undefined)
RECURSIVE FilterAlive(_, _)
FilterAlive(alive, died) ==
    IF alive = << >> THEN << >>
    ELSE IF died[Head(alive)] = Undefined
         THEN <<Head(alive)>> \o FilterAlive(Tail(alive), died)
         ELSE FilterAlive(Tail(alive), died)

\* Mutant of RoundIndex: the rounds are numbered from one.
RoundIndexFromOne(history) == Len(history) + 1

\* index: this.rounds.length
RoundIndex(history) == Len(history)

\* Game.#DoRoundImpl for the stage cur_stage: the outcomes it can have.  An
\* outcome carries in `shuffled` the alive list as shuffle() left the array
\* the round started with (the filter makes a new array).  An
\* outcome with error # "none" is an exception: the round is in the history
\* with the events composed so far, the dead are marked, and neither the
\* alive list is filtered nor the death buffer extended.
DoRoundImpl(cur_stage, alive0, buffer, history, cur_kills, cur_died, required, rate, pools) ==
    LET index == RoundIndex(history)
        pool == pools[cur_stage]
        Start(shuffled) ==
            [alive |-> shuffled, current_tribute |-> 0,
             tributes_left |-> Len(alive0), tributes_alive |-> Len(alive0),
             died_this_round |-> 0, died_in_round |-> cur_died, kills |-> cur_kills,
             round_died |-> << >>, game_events |-> << >>, error |-> "none"]
        Round(s, game_events) ==
            [game_events |-> game_events, died_this_round |-> s.round_died,
             index |-> index, stage |-> cur_stage]
        Finish(s) ==
            IF s.error # "none"
            THEN {[error |-> s.error, tributes_alive |-> s.alive,
                   shuffled |-> s.alive, tributes_died |-> buffer,
                   rounds |-> Append(history, Round(s, s.game_events)),
                   kills |-> s.kills, died_in_round |-> s.died_in_round]}
            ELSE {[error |-> "none",
                   tributes_alive |-> FilterAlive(s.alive, s.died_in_round),
                   shuffled |-> s.alive, tributes_died |-> buffer \o s.round_died,
                   rounds |-> Append(history, Round(s, game_events)),
                   kills |-> s.kills, died_in_round |-> s.died_in_round] :
                     game_events \in shuffle(s.game_events)}
        \* if (!event_list.length) return
        NothingToDo(shuffled) ==
            [error |-> "none", tributes_alive |-> shuffled, shuffled |-> shuffled,
             tributes_died |-> buffer,
             rounds |-> Append(history, Round(Start(shuffled), << >>)),
             kills |-> cur_kills, died_in_round |-> cur_died]
    IN  UNION { IF Len(pool) = 0 THEN {NothingToDo(shuffled)}
                ELSE UNION { Finish(s) :
                               s \in RoundLoop(Start(shuffled), pool, index, required, rate) } :
                shuffled \in shuffle(alive0) }

(***************************************************************************)
(* game: the state machine.                                                *)
(***************************************************************************)
\* Mutant of TickRenderState: THE_FALLEN falls into the case of the round states.
TickRenderStateFallThrough(cur_state) ==
    CASE cur_state \in {"NEW_ROUND", "IN_ROUND", "THE_FALLEN"} -> "ROUND_EVENTS"
      [] cur_state = "END_RESULTS" -> "ROUND_DEATHS"
      [] cur_state = "END_WINNER" -> "WINNERS"
      [] cur_state = "END_SUMMARY_FATALITIES" -> "GAME_DEATHS"
      [] cur_state = "END_SUMMARY_STATS" -> "STATS"
      [] cur_state \in {"DEAD", "END"} -> "GAME_OVER"

\* Game.#TickRenderState
TickRenderState(cur_state) ==
    CASE cur_state \in {"NEW_ROUND", "IN_ROUND"} -> "ROUND_EVENTS"
      [] cur_state \in {"THE_FALLEN", "END_RESULTS"} -> "ROUND_DEATHS"
      [] cur_state = "END_WINNER" -> "WINNERS"
      [] cur_state = "END_SUMMARY_FATALITIES" -> "GAME_DEATHS"
      [] cur_state = "END_SUMMARY_STATS" -> "STATS"
      [] cur_state \in {"DEAD", "END"} -> "GAME_OVER"

\* Mutant of CheckGameShouldEnd: the comparison is off by one.
CheckGameShouldEndAtTwo(alive, won) == Len(alive) <= 2 \/ won

\* Game.#CheckGameShouldEnd returns true.
CheckGameShouldEnd(alive, won) == Len(alive) < 2 \/ won

\* Mutant of StateAfterRound: the night is tested before the end of the game.
StateAfterRoundNightFirst(cur_state, cur_stage, alive, won) ==
    IF cur_stage = "night" THEN "THE_FALLEN"
    ELSE IF CheckGameShouldEnd(alive, won) THEN "END_RESULTS"
    ELSE cur_state

\* The state Game.#DoRound leaves after a round that did not throw;
\* cur_state is the state it was called in.
StateAfterRound(cur_state, cur_stage, alive, won) ==
    IF CheckGameShouldEnd(alive, won) THEN "END_RESULTS"
    ELSE IF cur_stage = "night" THEN "THE_FALLEN"
    ELSE cur_state

\* Mutant of StateAfterThrow: an exception in a round ends the state machine.
StateAfterThrowDead(cur_state) == "DEAD"

\* The state an exception thrown by #DoRound leaves: NEW_ROUND has moved to
\* IN_ROUND before the round, and Game.#Try only returns the exception.
StateAfterThrow(cur_state) == IF cur_state = "NEW_ROUND" THEN "IN_ROUND" ELSE cur_state

\* Mutant of NextScreen: the statistics lead back to the winners.
NextScreenLooping(cur_state) ==
    CASE cur_state = "THE_FALLEN" -> "NEW_ROUND"
      [] cur_state = "END_RESULTS" -> "END_WINNER"
      [] cur_state = "END_WINNER" -> "END_SUMMARY_FATALITIES"
      [] cur_state = "END_SUMMARY_FATALITIES" -> "END_SUMMARY_STATS"
      [] cur_state = "END_SUMMARY_STATS" -> "END_WINNER"
      [] cur_state = "END" -> "END"

\* Mutant of NextScreen: a case without its break falls into the next one.
NextScreenSkipping(cur_state) ==
    CASE cur_state = "THE_FALLEN" -> "NEW_ROUND"
      [] cur_state = "END_RESULTS" -> "END_WINNER"
      [] cur_state = "END_WINNER" -> "END_SUMMARY_STATS"
      [] cur_state = "END_SUMMARY_FATALITIES" -> "END_SUMMARY_STATS"
      [] cur_state = "END_SUMMARY_STATS" -> "END"
      [] cur_state = "END" -> "END"

\* The cases of #AdvanceGame that simulate no round: the state they move to.
NextScreen(cur_state) ==
    CASE cur_state = "THE_FALLEN" -> "NEW_ROUND"
      [] cur_state = "END_RESULTS" -> "END_WINNER"
      [] cur_state = "END_WINNER" -> "END_SUMMARY_FATALITIES"
      [] cur_state = "END_SUMMARY_FATALITIES" -> "END_SUMMARY_STATS"
      [] cur_state = "END_SUMMARY_STATS" -> "END"
      [] cur_state = "END" -> "END"

\* The cases of #AdvanceGame that simulate no round: the title they set.
ScreenTitle(cur_state, title, alive) ==
    CASE cur_state \in {"THE_FALLEN", "END_RESULTS"} -> Title("The Fallen", 0)
      [] cur_state = "END_WINNER" -> Title("The Games Have Ended", 0)
      [] cur_state = "END_SUMMARY_FATALITIES" -> Title("Deaths", 0)
      [] cur_state = "END_SUMMARY_STATS" ->
            IF Len(alive) # 0 THEN Title("Winners", 0) ELSE Title("The Fallen", 0)
      [] cur_state = "END" -> title

\* this.tributes.filter(t => t.died_in_round !== undefined)
RECURSIVE FilterDead(_, _)
FilterDead(roster, died) ==
    IF roster = << >> THEN << >>
    ELSE IF died[Head(roster)] # Undefined
         THEN <<Head(roster)>> \o FilterDead(Tail(roster), died)
         ELSE FilterDead(Tail(roster), died)

\* Mutant of SnapshotDied: the whole game's dead are reported at END_RESULTS.
SnapshotDiedAtResults(new_state, roster, died, buffer) ==
    IF new_state = "END_RESULTS" THEN FilterDead(roster, died) ELSE buffer

\* The tributes_died argument of new GameRenderState(...).
SnapshotDied(new_state, roster, died, buffer) ==
    IF new_state = "END" THEN FilterDead(roster, died) ELSE buffer

\* The GameRenderState #AdvanceGame returns.
GameRenderState(render_state, title, died, alive) ==
    [kind |-> "snapshot", state |-> render_state, game_title |-> title,
     tributes_died |-> died, tributes_alive |-> alive]

\* The Error Game.#Try returns for an exception.
ErrorResult(error) == [kind |-> "error", error |-> error]

\* The snapshot the last call returned is kept by the caller: its lists are
\* the arrays the Game passed to new GameRenderState(), not copies.  What
\* they hold after the next call: rounds_now is this.rounds (one array for
\* the whole game), alive_now the array tributes_alive was at the return,
\* died_now the array the snapshot got as tributes_died.
HeldSnapshot(rounds_now, alive_now, died_now) ==
    IF result.kind = "snapshot"
    THEN [kind |-> "snapshot", rounds |-> rounds_now, tributes_alive |-> alive_now,
          tributes_died |-> died_now]
    ELSE [kind |-> "none"]

\* The number of rounds played before the model stops simulating rounds.
RoundBound ==
    IF \A key \in DOMAIN event_list : event_list[key] = << >> THEN MaxRoundsQuiet
    ELSE IF Len(tributes) <= 2 THEN MaxRounds
    ELSE MaxRoundsLarge

\* AdvanceGame() in state NEW_ROUND or IN_ROUND: #StartNewRound in NEW_ROUND,
\* then #DoRound.
PlayRound ==
    /\ state \in {"NEW_ROUND", "IN_ROUND"}
    /\ Len(rounds) < RoundBound
    /\ LET buffer == IF state = "NEW_ROUND" THEN << >> ELSE tributes_died
       IN  \E next \in AdvanceGameStage(Len(rounds), stage, last_feast,
                                        days_passed, nights_passed) :
           \E round \in DoRoundImpl(next.stage, tributes_alive, buffer, rounds, kills,
                                    died_in_round, required_fatalities,
                                    fatality_reroll_rate, event_list) :
              /\ stage' = next.stage
              /\ last_feast' = next.last_feast
              /\ days_passed' = next.days_passed
              /\ nights_passed' = next.nights_passed
              /\ game_title' = RoundTitle(next.stage, next.days_passed, next.nights_passed)
              /\ rounds' = round.rounds
              /\ tributes_alive' = round.tributes_alive
              /\ tributes_died' = round.tributes_died
              /\ kills' = round.kills
              /\ died_in_round' = round.died_in_round
              /\ IF round.error # "none"
                 THEN /\ state' = StateAfterThrow(state)
                      /\ result' = ErrorResult(round.error)
                 ELSE /\ state' = StateAfterRound("IN_ROUND", next.stage,
                                                  round.tributes_alive, all_won)
                      /\ result' = GameRenderState(
                             TickRenderState(state), game_title',
                             SnapshotDied(state', tributes, round.died_in_round,
                                          round.tributes_died),
                             round.tributes_alive)
              \* this.rounds.push(round) and shuffle(this.tributes_alive) change
              \* the arrays in place; #StartNewRound makes a new #tributes_died,
              \* #tributes_died.push(...) extends the one there is.
              /\ held' = HeldSnapshot(round.rounds, round.shuffled,
                                      IF state = "NEW_ROUND" THEN tributes_died
                                      ELSE round.tributes_died)
    /\ UNCHANGED <<tributes, all_won, event_list, required_fatalities,
                   fatality_reroll_rate>>

\* AdvanceGame() in a state that simulates no round.
ShowScreen ==
    /\ state \in {"THE_FALLEN", "END_RESULTS", "END_WINNER",
                  "END_SUMMARY_FATALITIES", "END_SUMMARY_STATS", "END"}
    /\ state' = NextScreen(state)
    /\ game_title' = ScreenTitle(state, game_title, tributes_alive)
    /\ result' = GameRenderState(
           TickRenderState(state), game_title',
           SnapshotDied(state', tributes, died_in_round, tributes_died),
           tributes_alive)
    /\ held' = HeldSnapshot(rounds, tributes_alive,
                            IF result.kind = "snapshot" THEN result.tributes_died
                            ELSE << >>)
    /\ UNCHANGED <<tributes, tributes_alive, tributes_died, last_feast, stage, all_won,
                   rounds, days_passed, nights_passed, event_list, required_fatalities,
                   fatality_reroll_rate, kills, died_in_round>>

\* AdvanceGame() in state DEAD (the default case of the switch).
InternalError ==
    /\ state \notin {"NEW_ROUND", "IN_ROUND", "THE_FALLEN", "END_RESULTS", "END_WINNER",
                     "END_SUMMARY_FATALITIES", "END_SUMMARY_STATS", "END"}
    /\ state' = "DEAD"
    /\ result' = ErrorResult("internal")
    /\ held' = HeldSnapshot(rounds, tributes_alive,
                            IF result.kind = "snapshot" THEN result.tributes_died
                            ELSE << >>)
    /\ UNCHANGED <<tributes, tributes_alive, tributes_died, game_title, last_feast, stage,
                   all_won, rounds, days_passed, nights_passed, event_list,
                   required_fatalities, fatality_reroll_rate, kills, died_in_round>>

\* Game.AdvanceGame(): one call, the switch of #AdvanceGame under Game.#Try.
AdvanceGame ==
    /\ IF state \in {"NEW_ROUND", "IN_ROUND"} THEN PlayRound
       ELSE IF state \in {"THE_FALLEN", "END_RESULTS", "END_WINNER",
                          "END_SUMMARY_FATALITIES", "END_SUMMARY_STATS", "END"}
            THEN ShowScreen
            ELSE InternalError
    /\ UNCHANGED <<event_vars, tag_vars, round_vars>>

\* The caller sets the public field all_won.
SetAllWon ==
    /\ ~all_won
    /\ all_won' = TRUE
    /\ UNCHANGED <<tributes, tributes_alive, tributes_died, state, game_title, last_feast,
                   stage, rounds, days_passed, nights_passed, event_list,
                   required_fatalities, fatality_reroll_rate, kills, died_in_round,
                   result, held>>
    /\ UNCHANGED <<event_vars, tag_vars, round_vars>>

Next == AdvanceGame \/ SetAllWon

Spec == Init /\ [][Next]_vars

\* The games of a roster of two tributes.
InitPair == Init /\ Len(tributes) = 2

\* A game of two tributes whose caller keeps calling AdvanceGame().
FairSpec == InitPair /\ [][Next]_vars /\ WF_vars(AdvanceGame)

\* A step of AdvanceGame() that changes the state: it leaves all_won alone,
\* SetAllWon does not.
Ticked == all_won' = all_won

RoundStates == {"NEW_ROUND", "IN_ROUND"}

EndStates == {"END_RESULTS", "END_WINNER", "END_SUMMARY_FATALITIES",
              "END_SUMMARY_STATS", "END"}

\* this.tributes_alive.length < 2 || this.all_won, read in a state.
GameEndCondition(alive, won) == Len(alive) < 2 \/ won

(***************************************************************************)
(* The event factory on its own: new Event(...), event.require(...) and    *)
(* ComposeEventMessage(...) applied to templates, slot lists and           *)
(* participants drawn from small sets.                                     *)
(***************************************************************************)
\* The message templates the calls are given.
Templates ==
    {
      <<"%", "0", " ", "k", "i", "l", "l", "s", " ", "%", "1", ".">>,   \* "%0 kills %1."
      <<"a", "b", "c">>,   \* "abc"
      <<"%", "0">>,   \* "%0"
      <<"%", "0", "%", "w", "1">>,   \* "%0%w1"
      <<"%", "0", "%", "N">>,   \* "%0%N"
      <<"%", "0", "%", "Q", "x">>,   \* "%0%Qx"
      <<"%", "N", "0", "%", "0">>,   \* "%N0%0"
      <<" ", "%", "0", " ">>,   \* " %0 "
      <<"%", "9">>,   \* "%9"
      <<"%", "8">>,   \* "%8"
      <<" ">>,   \* " "
      <<"%", "0", "%">>,   \* "%0%"
      <<"%", "0", "%", "N", "x">>,   \* "%0%Nx"
      <<"x", "%", "1", "%", "s", "0">>    \* "x%1%s0"
    }

\* The fatality and the killer slot lists the constructor is given.
FatalityLists == { << >>, <<0>>, <<1>>, <<0, 2>> }
KillerLists == { << >>, <<1>> }

\* The tags and the slots require() is given.
RequiredTags == {1, 2}
RequiredSlots == 0..2

\* The number of require() calls an Event of the model accepts.
MaxRequirements == 2

\* The tributes of the roster.
RosterSize == Len(TributeOptions)

\* The participants a GameEvent of n tributes is given.
Participants(n) ==
    { [k \in 1..n |-> ((k - 1 + offset) % RosterSize) + 1] : offset \in 0..1 }

\* No game is constructed.
NoGame ==
    /\ tributes = << >>
    /\ tributes_alive = << >>
    /\ tributes_died = << >>
    /\ state = "NEW_ROUND"
    /\ game_title = Title("", 0)
    /\ last_feast = 0
    /\ stage = "bloodbath"
    /\ all_won = FALSE
    /\ rounds = << >>
    /\ days_passed = 0
    /\ nights_passed = 0
    /\ event_list = AddEvents(NoEvents)
    /\ required_fatalities = Undefined
    /\ fatality_reroll_rate = 60
    /\ kills = << >>
    /\ died_in_round = << >>
    /\ result = [kind |-> "none"]
    /\ held = [kind |-> "none"]

EventInit == NoGame /\ NoEventCalls /\ NoTags /\ NoRoundCall

\* new Event(message, fatalities, killers)
ConstructEvent ==
    /\ \E message \in Templates, fatalities \in FatalityLists, killers \in KillerLists :
          made' = IF EventThrows(message, fatalities, killers)
                  THEN [status |-> "thrown", message |-> message,
                        fatalities |-> fatalities, killers |-> killers]
                  ELSE [status |-> "made", message |-> message,
                        fatalities |-> fatalities, killers |-> killers,
                        event |-> NewEvent(message, fatalities, killers)]
    /\ require_call' = [status |-> "none"]
    /\ composition' = [status |-> "none"]
    /\ UNCHANGED <<game_vars, tag_vars, round_vars>>

\* event.require(tag, player_index) on the Event made last.
RequireTag ==
    /\ made.status = "made"
    /\ Len(made.event.requirements) < MaxRequirements
    /\ \E tag \in RequiredTags, player_index \in RequiredSlots :
          IF RequireThrows(made.event, player_index)
          THEN /\ require_call' = [status |-> "thrown", tag |-> tag,
                                   player_index |-> player_index]
               /\ made' = made
          ELSE /\ require_call' = [status |-> "done", tag |-> tag,
                                   player_index |-> player_index]
               /\ made' = [made EXCEPT !.event = Require(@, tag, player_index)]
    /\ UNCHANGED <<game_vars, tag_vars, round_vars, composition>>

\* The object a GameEvent is made of: the Event made last or, when the
\* constructor threw, an object with the message and the participant count
\* the Event would have had (GameEvent takes `event: any`).
EventObject ==
    IF made.status = "made" THEN made.event
    ELSE [message |-> Trim(made.message),
          players_involved |-> CalculateTributesInvolved(made.message)]

\* new GameEvent(event, players_involved), i.e. ComposeEventMessage(this).
ComposeMessage ==
    /\ made.status # "none"
    /\ \E players \in Participants(EventObject.players_involved) :
          LET composed == ComposeEventMessage(EventObject, players)
          IN  composition' = [status |-> "done",
                              message |-> EventObject.message,
                              players_involved |-> EventObject.players_involved,
                              players |-> players,
                              error |-> composed.error,
                              segments |-> composed.message]
    /\ UNCHANGED <<game_vars, tag_vars, round_vars, made, require_call>>

EventNext == ConstructEvent \/ RequireTag \/ ComposeMessage

EventSpec == EventInit /\ [][EventNext]_vars

(***************************************************************************)
(* tag registry: Tag.for, the name setter and the clearing of the registry *)
(* by Configuration.Load.                                                  *)
(***************************************************************************)
\* The names tags are given.
TagNames == {"armed", "hurt", "ally"}

\* At most this many Tag objects are created.
MaxTags == 4

\* The Tag objects created so far, by id.
TagIds == 0..(next_id - 1)

\* Mutant of NameTaken: the setter does not look at the registry.
NameTakenNowhere(name) == FALSE

\* for (const {__name} of Tag.registered_tags) if (name == __name) throw
NameTaken(name) ==
    \E k \in 1..Len(registered_tags) : tag_names[registered_tags[k] + 1] = name

\* Tag.registered_tags.find(t => t.name == name): the position of the first
\* registered tag of that name, 0 when there is none.
FindTag(name) ==
    IF NameTaken(name)
    THEN CHOOSE k \in 1..Len(registered_tags) :
            /\ tag_names[registered_tags[k] + 1] = name
            /\ \A j \in 1..(k - 1) : tag_names[registered_tags[j] + 1] # name
    ELSE 0

\* No game is running and no Event is under construction.
TagInit == NoGame /\ NoEventCalls /\ NoTags /\ NoRoundCall

\* Tag.for(name): the registered tag of that name, or new Tag(name), which
\* takes the next id and registers itself.
TagFor ==
    \E name \in TagNames :
        /\ IF FindTag(name) # 0
           THEN /\ tag_call' = [op |-> "for", name |-> name,
                                tag |-> registered_tags[FindTag(name)],
                                thrown |-> FALSE]
                /\ UNCHANGED <<registered_tags, tag_names, next_id, tag_ids>>
           ELSE /\ next_id < MaxTags
                /\ next_id' = next_id + 1
                /\ tag_ids' = Append(tag_ids, next_id)
                /\ tag_names' = Append(tag_names, name)
                /\ registered_tags' = Append(registered_tags, next_id)
                /\ tag_call' = [op |-> "for", name |-> name, tag |-> next_id,
                                thrown |-> FALSE]
        /\ UNCHANGED <<game_vars, event_vars, round_vars>>

\* tag.name = name, for any Tag object the caller holds, registered or not.
SetName ==
    \E tag \in TagIds, name \in TagNames :
        /\ IF NameTaken(name)
           THEN /\ tag_call' = [op |-> "rename", name |-> name, tag |-> tag,
                                thrown |-> TRUE]
                /\ UNCHANGED tag_names
           ELSE /\ tag_names' = [tag_names EXCEPT ![tag + 1] = name]
                /\ tag_call' = [op |-> "rename", name |-> name, tag |-> tag,
                                thrown |-> FALSE]
        /\ UNCHANGED <<registered_tags, next_id, tag_ids, game_vars, event_vars, round_vars>>

\* Mutant of NextIdAfterClear: the clear starts the ids again.
NextIdReset(id) == 0

\* Tag.__next_id after `Tag.registered_tags = []`: nothing assigns to it.
NextIdAfterClear(id) == id

\* Tag.registered_tags = [] (Configuration.Load with overwrite); the Tag
\* objects stay with whoever holds them, __next_id goes on counting.
ClearRegistry ==
    /\ registered_tags' = << >>
    /\ next_id' = NextIdAfterClear(next_id)
    /\ tag_call' = [op |-> "clear"]
    /\ UNCHANGED <<tag_names, tag_ids, game_vars, event_vars, round_vars>>

\* V1.TagExists(_): `return true`, whatever the stored tag.
TagExists(stored) == TRUE

\* LoadTags: tags.filter(t => !exists(t)), the stored tags the loader is called with.
LoadTags(tags) == SelectSeq(tags, LAMBDA t : ~TagExists(t))

\* SaveTags(): the name of every registered tag, in the order of the registry.
SaveTags == [k \in 1..Len(registered_tags) |-> tag_names[registered_tags[k] + 1]]

\* Tag.for(name) on the registry r (the list, the names by id, the counter, the ids given):
\* the registry it leaves.
TagForIn(r, name) ==
    IF \E k \in 1..Len(r.registered_tags) : r.tag_names[r.registered_tags[k] + 1] = name
    THEN r
    ELSE [registered_tags |-> Append(r.registered_tags, r.next_id),
          tag_names |-> Append(r.tag_names, name),
          next_id |-> r.next_id + 1,
          tag_ids |-> Append(r.tag_ids, r.next_id)]

\* names.forEach(name => Tag.for(name)): V1.LoadTag for each stored tag the
\* loader is called with, and the Tag.for of V1.LoadEvent for each requirement.
RECURSIVE ForEachTagFor(_, _)
ForEachTagFor(r, names) ==
    IF names = << >> THEN r
    ELSE ForEachTagFor(TagForIn(r, Head(names)), Tail(names))

\* The lists of names a configuration holds: its tags list, and the tag
\* requirements of its events in the order LoadEvents loads them.
StoredNames == { << >>, <<"armed">>, <<"hurt">>, <<"armed", "ally">> }

\* Configuration.Load(into, configuration, overwrite) of a version-1
\* configuration whose events are all new to `into`, as the tag registry
\* sees it.  The configuration is either any one, or (from_save) the result
\* of Configuration.Save in this state: its tags are SaveTags().
Load ==
    \E tags \in StoredNames \cup {SaveTags}, requirements \in StoredNames,
       overwrite \in BOOLEAN :
        LET cleared == [registered_tags |-> IF overwrite THEN << >> ELSE registered_tags,
                        tag_names |-> tag_names,
                        next_id |-> IF overwrite THEN NextIdAfterClear(next_id)
                                    ELSE next_id,
                        tag_ids |-> tag_ids]
            loaded == ForEachTagFor(ForEachTagFor(cleared, LoadTags(tags)), requirements)
        IN  /\ loaded.next_id <= MaxTags
            /\ registered_tags' = loaded.registered_tags
            /\ tag_names' = loaded.tag_names
            /\ next_id' = loaded.next_id
            /\ tag_ids' = loaded.tag_ids
            /\ tag_call' = [op |-> "load", tags |-> tags, overwrite |-> overwrite,
                            from_save |-> tags = SaveTags]
            /\ UNCHANGED <<game_vars, event_vars, round_vars>>

TagNext == TagFor \/ SetName \/ ClearRegistry \/ Load

TagSpec == TagInit /\ [][TagNext]_vars

(***************************************************************************)
(* round: the first AdvanceGame() call of a new Game, followed step by     *)
(* step through #DoRoundImpl: one step per attempt of the do-while loop.   *)
(***************************************************************************)
\* A pool larger than ten events, whose budget is ten times its length.
LargePool == [k \in 1..11 |-> IF k = 1 THEN EventSurvive ELSE EventKill]

\* The bloodbath pools of the games followed step by step.
RoundPools ==
    { << >>,
      <<EventSurvive>>,
      <<EventKill>>,
      <<EventSurvive, EventKill>>,
      <<EventAccident, EventSurvive>>,
      <<EventFaulty, EventSurvive>>,
      <<EventTrio, EventSurvive>>,
      <<EventTagged, EventTaggedPair>>,
      LargePool }

\* new Game(tributes, events, fatality_reroll_rate); AdvanceGame() not yet called.
RoundInit ==
    \E n \in RosterSizes, pool \in RoundPools, opts \in FatalitySettings,
       rate \in RerollRates :
        /\ tributes = [t \in 1..n |-> t]
        /\ tributes_alive = [t \in 1..n |-> t]
        /\ tributes_died = << >>
        /\ state = "NEW_ROUND"
        /\ game_title = Title("", 0)
        /\ last_feast = 0
        /\ stage = "bloodbath"
        /\ all_won = FALSE
        /\ rounds = << >>
        /\ days_passed = 0
        /\ nights_passed = 0
        /\ event_list = AddEvents([NoEvents EXCEPT !.bloodbath = pool])
        /\ required_fatalities = RequiredFatalities(opts, n)
        /\ fatality_reroll_rate = rate
        /\ kills = [t \in 1..n |-> 0]
        /\ died_in_round = [t \in 1..n |-> Undefined]
        /\ result = [kind |-> "none"]
        /\ held = [kind |-> "none"]
        /\ NoEventCalls
        /\ NoTags
        /\ NoRoundCall

\* The round #DoRoundImpl is simulating: the last of the history.
CurrentRound == rounds[Len(rounds)]

\* The event list of the current stage.
CurrentPool == event_list[stage]

\* AdvanceGame() is called in state NEW_ROUND: #TickRenderState, the state
\* becomes IN_ROUND, #StartNewRound, #AdvanceGameStage, and #DoRoundImpl up
\* to the loop `outer`.
BeginRound ==
    /\ pc = "idle"
    /\ state = "NEW_ROUND"
    /\ state' = "IN_ROUND"
    /\ tributes_died' = << >>
    /\ \E next \in AdvanceGameStage(Len(rounds), stage, last_feast,
                                     days_passed, nights_passed) :
          /\ stage' = next.stage
          /\ last_feast' = next.last_feast
          /\ days_passed' = next.days_passed
          /\ nights_passed' = next.nights_passed
          /\ game_title' = RoundTitle(next.stage, next.days_passed, next.nights_passed)
          /\ rounds' = Append(rounds, [game_events |-> << >>, died_this_round |-> << >>,
                                       index |-> RoundIndex(rounds),
                                       stage |-> next.stage])
          /\ tributes_alive' \in shuffle(tributes_alive)
          /\ locals' = [current_tribute |-> 0, tributes_left |-> Len(tributes_alive),
                        tributes_alive |-> Len(tributes_alive), died_this_round |-> 0,
                        tries |-> 0, draws |-> 0, exhausted |-> FALSE]
          \* if (!event_list.length) return; while (tributes_left)
          /\ pc' = IF Len(event_list[next.stage]) = 0 THEN "return"
                   ELSE IF Len(tributes_alive) = 0 THEN "finish"
                   ELSE "draw"
    /\ UNCHANGED <<tributes, all_won, event_list, required_fatalities,
                   fatality_reroll_rate, kills, died_in_round, result, held>>
    /\ UNCHANGED <<event_vars, tag_vars>>

\* The loop locals and the fields the loop writes, as AcceptEvent takes them.
LoopState ==
    [alive |-> tributes_alive, current_tribute |-> locals.current_tribute,
     tributes_left |-> locals.tributes_left, tributes_alive |-> locals.tributes_alive,
     died_this_round |-> locals.died_this_round, died_in_round |-> died_in_round,
     kills |-> kills, round_died |-> CurrentRound.died_this_round,
     game_events |-> CurrentRound.game_events, error |-> "none"]

\* The event drawn was accepted: the rest of the body of the loop `outer`,
\* and the test of the loop for the next iteration.
Accept(event) ==
    LET after == AcceptEvent(LoopState, event, CurrentRound.index)
    IN  /\ kills' = after.kills
        /\ died_in_round' = after.died_in_round
        /\ rounds' = [rounds EXCEPT ![Len(rounds)] =
                         [@ EXCEPT !.died_this_round = after.round_died,
                                   !.game_events = after.game_events]]
        /\ locals' = [locals EXCEPT !.current_tribute = after.current_tribute,
                                    !.tributes_left = after.tributes_left,
                                    !.tributes_alive = after.tributes_alive,
                                    !.died_this_round = after.died_this_round,
                                    !.tries = 0,
                                    !.draws = 0]
        /\ IF after.error # "none"
           THEN /\ pc' = "thrown"
                /\ result' = ErrorResult(after.error)
           ELSE /\ pc' = IF WinnerDecided(after.tributes_alive) THEN "finish"
                         ELSE IF after.tributes_left = 0 THEN "finish"
                         ELSE "draw"
                /\ UNCHANGED result

\* One attempt of the do-while loop: the budget test, the draw and
\* #RequirementsSatisfied; with an event accepted, the rest of the iteration.
Draw ==
    /\ pc = "draw"
    /\ IF BudgetExhausted(locals.tries, CurrentPool)
       THEN /\ locals' = [locals EXCEPT !.tries = @ + 1, !.exhausted = TRUE]
            /\ pc' = "finish"
            /\ UNCHANGED <<kills, died_in_round, rounds, result>>
       ELSE \E k \in randomInt(0, Len(CurrentPool)) :
            \E satisfied \in RequirementsSatisfied(
                                 CurrentPool[k + 1], tributes_alive,
                                 locals.current_tribute, locals.tributes_left,
                                 locals.died_this_round, required_fatalities,
                                 fatality_reroll_rate) :
               IF satisfied THEN Accept(CurrentPool[k + 1])
               ELSE /\ locals' = [locals EXCEPT !.tries = @ + 1, !.draws = @ + 1]
                    /\ UNCHANGED <<pc, kills, died_in_round, rounds, result>>
    /\ UNCHANGED <<tributes, tributes_alive, tributes_died, state, game_title,
                   last_feast, stage, all_won, days_passed, nights_passed, event_list,
                   required_fatalities, fatality_reroll_rate, held>>
    /\ UNCHANGED <<event_vars, tag_vars>>

\* After the loop: shuffle(round.game_events), the filter of the alive list
\* and the push to the death buffer.
FinishRound ==
    /\ pc = "finish"
    /\ \E game_events \in shuffle(CurrentRound.game_events) :
          rounds' = [rounds EXCEPT ![Len(rounds)] = [@ EXCEPT !.game_events = game_events]]
    /\ tributes_alive' = FilterAlive(tributes_alive, died_in_round)
    /\ tributes_died' = tributes_died \o CurrentRound.died_this_round
    /\ pc' = "return"
    /\ UNCHANGED <<tributes, state, game_title, last_feast, stage, all_won, days_passed,
                   nights_passed, event_list, required_fatalities, fatality_reroll_rate,
                   kills, died_in_round, result, held, locals>>
    /\ UNCHANGED <<event_vars, tag_vars>>

\* #DoRoundImpl has returned: the rest of #DoRound, and the snapshot.
ReturnSnapshot ==
    /\ pc = "return"
    /\ state' = StateAfterRound(state, stage, tributes_alive, all_won)
    /\ result' = GameRenderState(
           TickRenderState("NEW_ROUND"), game_title,
           SnapshotDied(state', tributes, died_in_round, tributes_died),
           tributes_alive)
    /\ pc' = "returned"
    /\ UNCHANGED <<tributes, tributes_alive, tributes_died, game_title, last_feast,
                   stage, all_won, rounds, days_passed, nights_passed, event_list,
                   required_fatalities, fatality_reroll_rate, kills, died_in_round,
                   held, locals>>
    /\ UNCHANGED <<event_vars, tag_vars>>

RoundNext == BeginRound \/ Draw \/ FinishRound \/ ReturnSnapshot

RoundSpec == RoundInit /\ [][RoundNext]_vars

\* The games whose reroll can go either way, without a fatality target or
\* with a target of one.
RoundInitRerolling ==
    RoundInit /\ fatality_reroll_rate = 60 /\ required_fatalities \in {Undefined, 1}

\* The call is not suspended: every step of it is taken.
FairRoundSpec == RoundInitRerolling /\ [][RoundNext]_vars /\ WF_vars(RoundNext)

\* The fatalities of the events a round of the history lists.
RECURSIVE RecordedFatalities(_, _)
RecordedFatalities(round, k) ==
    IF k = 0 THEN 0
    ELSE Len(round.game_events[k].event.fatalities) + RecordedFatalities(round, k - 1)

\* The round was simulated to its end: the events it lists account for its
\* dead.  (A round that threw has marked the dead of the event it could not
\* compose and does not list the event.)
RoundCompleted(round) ==
    Len(round.died_this_round) = RecordedFatalities(round, Len(round.game_events))

\* The tributes a list holds.
Members(list) == {list[k] : k \in 1..Len(list)}

\* No round of the game has thrown.
NoRoundThrew == \A i \in 1..Len(rounds) : RoundCompleted(rounds[i])

(***************************************************************************)
(* The claims.                                                             *)
(***************************************************************************)

\* C1: once an AdvanceGame() call has returned an Error, the state is DEAD
\* and the next call (hence every later call) returns an Error too.
\* The code violates it: an exception thrown while a round is simulated
\* leaves the state IN_ROUND, and the next call simulates the next round.
C1_ErrorIsFinal ==
    [][(result.kind = "error" /\ Ticked)
         => (state = "DEAD" /\ result'.kind = "error" /\ state' = "DEAD")]_vars

C3_DisplayKindOfEntryState ==
    [][(Ticked /\ result'.kind = "snapshot")
         => result'.state =
              CASE state \in {"NEW_ROUND", "IN_ROUND"} -> "ROUND_EVENTS"
                [] state \in {"THE_FALLEN", "END_RESULTS"} -> "ROUND_DEATHS"
                [] state = "END_WINNER" -> "WINNERS"
                [] state = "END_SUMMARY_FATALITIES" -> "GAME_DEATHS"
                [] state = "END_SUMMARY_STATS" -> "STATS"
                [] state = "END" -> "GAME_OVER"]_vars

\* C3 witness: a call entered in THE_FALLEN has returned ROUND_DEATHS and
\* moved to NEW_ROUND, whose own kind is ROUND_EVENTS.
C3_Witness ==
    /\ result.kind = "snapshot"
    /\ result.state = "ROUND_DEATHS"
    /\ state = "NEW_ROUND"

\* C4: every call entered in NEW_ROUND or IN_ROUND leaves END_RESULTS if
\* fewer than two tributes are alive or all_won is set, whatever the stage of
\* its round, and leaves another state otherwise.
\* The code violates it when the round throws: the state is left as it was
\* set before the round (IN_ROUND), the end of the game is not looked at.
C4_EndResultsIffGameEnd ==
    [][(Ticked /\ state \in RoundStates)
         => (state' = "END_RESULTS"
               <=> GameEndCondition(tributes_alive', all_won'))]_vars

\* C5: a call entered in NEW_ROUND or IN_ROUND leaves THE_FALLEN if and only
\* if the stage of its round is NIGHT and the game-end condition does not
\* hold; the call entered in THE_FALLEN returns ROUND_DEATHS, simulates no
\* round and leaves NEW_ROUND.
\* The code violates it when a NIGHT round throws: the state stays IN_ROUND.
C5_FallenAfterNight ==
    [][Ticked =>
         /\ state \in RoundStates
              => (state' = "THE_FALLEN"
                    <=> (rounds'[Len(rounds')].stage = "night"
                           /\ ~GameEndCondition(tributes_alive', all_won')))
         /\ state = "THE_FALLEN"
              => /\ state' = "NEW_ROUND"
                 /\ result'.kind = "snapshot"
                 /\ result'.state = "ROUND_DEATHS"
                 /\ rounds' = rounds]_vars

\* C6: from END_RESULTS the calls move through END_WINNER,
\* END_SUMMARY_FATALITIES, END_SUMMARY_STATS and END, one state a call, and
\* simulate no round; a call in END returns GAME_OVER and changes neither
\* the state, the history, the alive list nor a tribute.
C6_EndSequence ==
    [][(Ticked /\ state \in EndStates) =>
         /\ state' = CASE state = "END_RESULTS" -> "END_WINNER"
                        [] state = "END_WINNER" -> "END_SUMMARY_FATALITIES"
                        [] state = "END_SUMMARY_FATALITIES" -> "END_SUMMARY_STATS"
                        [] state = "END_SUMMARY_STATS" -> "END"
                        [] state = "END" -> "END"
         /\ result'.kind = "snapshot"
         /\ state = "END" => result'.state = "GAME_OVER"
         /\ rounds' = rounds
         /\ tributes_alive' = tributes_alive
         /\ kills' = kills
         /\ died_in_round' = died_in_round]_vars

\* C6 witness: a call in END has returned GAME_OVER.
C6_Witness ==
    /\ state = "END"
    /\ result.kind = "snapshot"
    /\ result.state = "GAME_OVER"

\* C7, as claimed: the snapshot of the call that leaves END_RESULTS lists
\* every tribute with a death record, every other snapshot the buffer.
\* It is stated for the tributes the lists hold, whatever their order, and
\* for the games in which no round threw, where the buffer is the dead since
\* the last reset; it fails there already: the code reports the whole
\* game's dead when it leaves END.
C7_AllDeadAtEndResults ==
    [][(Ticked /\ result'.kind = "snapshot" /\ NoRoundThrew')
         => Members(result'.tributes_died) =
              IF state' = "END_RESULTS"
              THEN Members(FilterDead(tributes, died_in_round'))
              ELSE Members(tributes_died')]_vars

\* C7, amended: the snapshot of a call that leaves END (the call entered in
\* END_SUMMARY_STATS and the calls in END) lists every roster tribute with a
\* death record, in roster order; every other snapshot, the one of the round
\* that ends the game included, lists the buffer.
C7_AllDeadAtEnd ==
    [][(Ticked /\ result'.kind = "snapshot")
         => result'.tributes_died =
              IF state' = "END"
              THEN FilterDead(tributes, died_in_round')
              ELSE tributes_died']_vars

\* C7 witness: the game ended with a buffer that is not the list of all the
\* dead, and the snapshot at END lists all the dead.
C7_Witness ==
    /\ state = "END"
    /\ result.kind = "snapshot"
    /\ result.tributes_died # tributes_died
    /\ Len(result.tributes_died) > Len(tributes_died)

\* C8: the stages of the history follow the stage-advance rule: round 0 is
\* BLOODBATH and no later round is; DAY follows BLOODBATH and FEAST, NIGHT
\* follows DAY, DAY or FEAST follows NIGHT; rounds 0 to 3 are BLOODBATH,
\* DAY, NIGHT, DAY.
C8_StageSequence ==
    \A i \in 1..Len(rounds) :
        LET cur == rounds[i].stage
        IN  /\ i = 1 => cur = "bloodbath"
            /\ i > 1 =>
                 LET prev == rounds[i - 1].stage
                 IN  /\ cur # "bloodbath"
                     /\ prev \in {"bloodbath", "feast"} => cur = "day"
                     /\ prev = "day" => cur = "night"
                     /\ prev = "night" => cur \in {"day", "feast"}
            /\ i <= 4 => cur = <<"bloodbath", "day", "night", "day">>[i]

\* C8 witness: a FEAST round and the DAY after it are in the history.
C8_Witness ==
    \E i \in 1..Len(rounds) :
        /\ rounds[i].stage = "feast"
        /\ i < Len(rounds)

C10_NoFatalityOnceTargetReached ==
    required_fatalities # Undefined =>
      \A i \in 1..Len(rounds) :
        LET events == rounds[i].game_events
            total == Len(rounds[i].died_this_round)
        IN  (RoundCompleted(rounds[i]) /\ total > 0)
              => \E k \in 1..Len(events) :
                    /\ Len(events[k].event.fatalities) > 0
                    /\ total - Len(events[k].event.fatalities) < required_fatalities

\* The tributes the events a round lists have bound.
RECURSIVE TributesBound(_, _)
TributesBound(round, k) ==
    IF k = 0 THEN 0
    ELSE Len(round.game_events[k].players_involved) + TributesBound(round, k - 1)

C12_RequirementsHold ==
    \A i \in 1..Len(rounds) :
      \A k \in 1..Len(rounds[i].game_events) :
        LET bound == rounds[i].game_events[k]
        IN  \A r \in 1..Len(bound.event.requirements) :
              LET requirement == bound.event.requirements[r]
              IN  /\ requirement.player_index < Len(bound.players_involved)
                  /\ TributeHas(bound.players_involved[requirement.player_index + 1],
                                requirement.tag)

\* C12 witness: a round lists an event that requires a tag of its second
\* tribute, and a round lists one that requires it of its first.
C12_Witness ==
    /\ \E i \in 1..Len(rounds) : \E k \in 1..Len(rounds[i].game_events) :
          rounds[i].game_events[k].event = EventTaggedPair
    /\ \E i \in 1..Len(rounds) : \E k \in 1..Len(rounds[i].game_events) :
          rounds[i].game_events[k].event = EventTagged

\* C13: over the calls of AdvanceGame(), the died_in_round of a tribute, once
\* set, is neither cleared nor assigned again, and a tribute whose
\* died_in_round is set is in the alive list of no snapshot returned later.
\* The code violates it after a round that threw: the round has marked its
\* dead and has not filtered the alive list.
C13_DeadStayDead ==
    [][Ticked =>
         \A t \in 1..Len(tributes) :
           died_in_round[t] # Undefined
             => /\ died_in_round'[t] = died_in_round[t]
                /\ result'.kind = "snapshot"
                     => t \notin Members(result'.tributes_alive)]_vars

\* C20: while all_won is not set, the alive list has at most one member in
\* END_RESULTS, END_WINNER, END_SUMMARY_FATALITIES, END_SUMMARY_STATS and END,
\* and no call changes it once END_RESULTS is entered.
C20_OneLeftAtTheEnd ==
    [][(state' \in EndStates /\ ~all_won')
         => /\ Len(tributes_alive') <= 1
            /\ state \in EndStates => tributes_alive' = tributes_alive]_vars

\* C20 witness: the game is past END_RESULTS with one tribute alive and
\* all_won not set.
C20_Witness ==
    /\ state = "END_SUMMARY_STATS"
    /\ ~all_won
    /\ Len(tributes_alive) = 1
    /\ Len(tributes) = 3

\* C18: the rounds, tributes_died and tributes_alive lists of a snapshot
\* AdvanceGame() returned have, after the next call (and so after any number
\* of calls), the members they had when it was returned, in the same order.
\* The code violates it: the snapshot holds the Game's own arrays, and the
\* next round pushes to rounds, shuffles tributes_alive in place and pushes
\* to #tributes_died.
C18_SnapshotImmutable ==
    [][(Ticked /\ result.kind = "snapshot")
         => /\ held'.rounds = rounds
            /\ held'.tributes_alive = result.tributes_alive
            /\ held'.tributes_died = result.tributes_died]_vars

\* C14: every Event the constructor returns, after the require() calls it
\* accepted, has 1 <= players_involved <= 9 and every fatality, killer and
\* requirement slot below players_involved; so a construction or a require()
\* call with a slot that is not below it, or a template with a participant
\* count outside 1..9, has thrown.
C14_EventWellFormed ==
    /\ made.status = "made" =>
          LET event == made.event
          IN  /\ event.players_involved = CalculateTributesInvolved(made.message)
              /\ event.players_involved >= 1
              /\ event.players_involved <= 9
              /\ \A k \in 1..Len(event.fatalities) :
                    event.fatalities[k] < event.players_involved
              /\ \A k \in 1..Len(event.killers) :
                    event.killers[k] < event.players_involved
              /\ \A k \in 1..Len(event.requirements) :
                    event.requirements[k].player_index < event.players_involved
    /\ require_call.status = "done" =>
          require_call.player_index < made.event.players_involved

\* C14 witness: an Event of two tributes is made with a fatality slot, a
\* killer slot and two requirements, after a require() call that threw.
C14_Witness ==
    /\ made.status = "made"
    /\ made.event.players_involved = 2
    /\ made.event.fatalities = <<1>>
    /\ made.event.killers = <<1>>
    /\ Len(made.event.requirements) = 1
    /\ require_call.status = "thrown"

\* C15: composing the message of an Event the constructor accepted, with
\* players_involved participants, never raises the bounds error.
\* The code violates it: the constructor counts the participants with a
\* regular expression that knows neither %e nor %w, the composer resolves
\* both.
C15_NoBoundsError ==
    (made.status = "made" /\ composition.status = "done")
      => composition.error # "bounds"

\* The placeholder the composer is to resolve at index i of the template m
\* (one-based): "name" for %d, "text" for a pronoun or agreement letter
\* followed by a digit, "none" otherwise.
PlaceholderAt(m, i) ==
    IF m[i] # "%" THEN "none"
    ELSE IF i + 1 <= Len(m) /\ isdigit(m[i + 1]) THEN "name"
    ELSE IF /\ i + 2 <= Len(m)
            /\ m[i + 1] \in PronounLetters \cup SuffixLetters
            /\ isdigit(m[i + 2])
         THEN "text"
    ELSE "none"

\* The literal run collected so far, as a segment; nothing when it is empty.
FlushRun(run) == IF run = << >> THEN << >> ELSE <<LitSegment(run)>>

\* The canonical segment sequence of the template m from index i on, with
\* the literal run collected so far: one name per %d, one string per
\* resolved pronoun or agreement placeholder, one string per maximal
\* non-empty literal run.
RECURSIVE CanonicalFrom(_, _, _, _)
CanonicalFrom(m, players, i, run) ==
    IF i > Len(m) THEN FlushRun(run)
    ELSE IF PlaceholderAt(m, i) = "name"
    THEN FlushRun(run)
         \o <<NameSegment(players[DigitValue(m[i + 1]) + 1])>>
         \o CanonicalFrom(m, players, i + 2, << >>)
    ELSE IF PlaceholderAt(m, i) = "text"
    THEN LET t == players[DigitValue(m[i + 2]) + 1]
         IN  FlushRun(run)
             \o <<TextSegment(t, PlaceholderText(m[i + 1], t))>>
             \o CanonicalFrom(m, players, i + 3, << >>)
    ELSE CanonicalFrom(m, players, i + 1, Append(run, m[i]))

CanonicalSegments(m, players) == CanonicalFrom(m, players, 1, << >>)

\* C16: a composition of an Event's message that returns, returns the canonical segment sequence of
\* the template: no empty literal segment, no literal run in two segments,
\* nothing twice; "%0 kills %1." gives ref, " kills ", ref, ".".
\* The code violates it: it pushes the (empty) literal before every
\* placeholder, and pushes a final %d once more as a literal.
C16_CanonicalSegments ==
    (/\ made.status = "made"
     /\ composition.status = "done"
     /\ composition.error = "none")
      => composition.segments
           = CanonicalSegments(composition.message, composition.players)

\* Some % of the template starts no placeholder.
HasUnresolved(m) ==
    \E i \in 1..Len(m) : m[i] = "%" /\ PlaceholderAt(m, i) = "none"

\* The segments with their literal text taken apart, character by character.
RECURSIVE Flat(_)
Flat(segments) ==
    IF segments = << >> THEN << >>
    ELSE LET first == Head(segments)
         IN  (IF first.kind = "lit"
              THEN [k \in 1..Len(first.text) |-> LitSegment(<<first.text[k]>>)]
              ELSE <<first>>)
             \o Flat(Tail(segments))

\* C17: when some % of an Event's template starts no recognized placeholder (an
\* unknown letter after it, or a pronoun or agreement letter without a digit,
\* also at the very end of the template), the composition succeeds and its
\* output, read as text, is the template with the resolved placeholders
\* replaced: the % and what follows it are there once, in place.  (The
\* bounds error is C15's matter and left aside.)
\* The code violates it: a template that ends right after a pronoun or
\* agreement letter makes isdigit(undefined) throw a TypeError.
C17_UnresolvedStaysLiteral ==
    (/\ made.status = "made"
     /\ composition.status = "done"
     /\ composition.error # "bounds"
     /\ HasUnresolved(composition.message))
      => /\ composition.error = "none"
         /\ Flat(composition.segments)
              = Flat(CanonicalSegments(composition.message, composition.players))

\* The registered tag ids that bear the name, in the registry given.
Bearers(registry, names, name) ==
    { registry[k] : k \in { j \in 1..Len(registry) : names[registry[j] + 1] = name } }

\* C19: after any sequence of Tag.for calls, name reassignments and registry
\* clears, no two registered tags have the same name; Tag.for(name) returns
\* the registered tag of exactly that name when there is one, and otherwise
\* registers a new tag of that name; a reassignment to a name that another
\* registered tag holds fails and leaves the name of the tag as it was.
C19_RegisteredNamesUnique ==
    [][ /\ \A name \in TagNames :
              Cardinality(Bearers(registered_tags', tag_names', name)) <= 1
        /\ tag_call'.op = "for" =>
              LET name == tag_call'.name
                  held_by == Bearers(registered_tags, tag_names, name)
              IN  /\ tag_names'[tag_call'.tag + 1] = name
                  /\ Bearers(registered_tags', tag_names', name) = {tag_call'.tag}
                  /\ IF held_by # {}
                     THEN /\ tag_call'.tag \in held_by
                          /\ registered_tags' = registered_tags
                          /\ tag_names' = tag_names
                     ELSE /\ tag_call'.tag \notin TagIds
                          /\ registered_tags' = Append(registered_tags, tag_call'.tag)
        /\ tag_call'.op = "rename" =>
              LET name == tag_call'.name
                  others == Bearers(registered_tags, tag_names, name) \ {tag_call'.tag}
              IN  others # {} =>
                     /\ tag_call'.thrown
                     /\ tag_names'[tag_call'.tag + 1] = tag_names[tag_call'.tag + 1]
      ]_vars

\* A reassignment to the name of another registered tag has just failed, in
\* a registry of two tags that was cleared before.
C19_Witness ==
    /\ tag_call.op = "rename"
    /\ tag_call.thrown
    /\ tag_names[tag_call.tag + 1] # tag_call.name
    /\ tag_call.tag \in Bearers(registered_tags, tag_names, tag_names[tag_call.tag + 1])
    /\ Len(registered_tags) = 2
    /\ next_id > 2

\* C21: every round simulation terminates.  An attempt of the selection
\* loop either accepts an event, and the number of tributes without an event
\* goes down by the players_involved >= 1 of that event; or it rejects the
\* event drawn, which it does no more often than the budget allows; or it
\* finds the budget exhausted and leaves the loop.  So the AdvanceGame() call
\* returns, with a snapshot or an Error.
C21_RoundTerminates ==
    /\ [][ pc = "draw" =>
             \/ /\ locals'.tributes_left < locals.tributes_left
                /\ locals.tributes_left - locals'.tributes_left
                     = locals'.current_tribute - locals.current_tribute
                /\ pc' # "thrown" =>
                     \E k \in 1..Len(CurrentRound'.game_events) :
                         CurrentRound'.game_events[k].event.players_involved
                           = locals.tributes_left - locals'.tributes_left
             \/ /\ pc' = "draw"
                /\ locals'.tributes_left = locals.tributes_left
                /\ locals'.tries = locals.tries + 1
                /\ locals'.tries <= DrawBudget(CurrentPool) + 1
             \/ /\ pc' = "finish"
                /\ locals'.exhausted
                /\ locals'.tributes_left = locals.tributes_left
                /\ locals.tries > DrawBudget(CurrentPool)
          ]_vars
    /\ <>(pc \in {"returned", "thrown"})

\* A round that gave up after it had accepted an event has returned.
C21_Witness ==
    /\ pc = "returned"
    /\ locals.exhausted
    /\ Len(CurrentRound.game_events) >= 1

\* C22: for a window position, the events drawn before the round gives up
\* are at most max(100, pool_size * 10).
\* The code violates it: `tries++ > max` lets the attempt with tries = max
\* pass, which is attempt max + 1.
C22_DrawsWithinBudget ==
    pc \in {"draw", "finish", "return", "returned"}
      => locals.draws <= DrawBudget(CurrentPool)

\* The tributes the events of a round have bound.
Participating(round) ==
    UNION { Members(round.game_events[k].players_involved) :
              k \in 1..Len(round.game_events) }

\* C23: when the draw budget is exhausted in a round, AdvanceGame() returns
\* a snapshot; the events and deaths the round accepted before are kept, the
\* tributes without a window are in no event of the round and stay alive,
\* and the dead of the round leave the alive list and join the death buffer.
C23_ExhaustedRoundIsKept ==
    [][ /\ (pc = "draw" /\ locals'.exhausted) =>
              /\ pc' = "finish"
              /\ rounds' = rounds
              /\ kills' = kills
              /\ died_in_round' = died_in_round
        /\ (pc = "finish" /\ locals.exhausted) =>
              /\ pc' = "return"
              /\ Len(CurrentRound'.game_events) = Len(CurrentRound.game_events)
              /\ Members(CurrentRound'.game_events) = Members(CurrentRound.game_events)
              /\ CurrentRound'.died_this_round = CurrentRound.died_this_round
              /\ died_in_round' = died_in_round
              /\ \A k \in (locals.current_tribute + 1)..Len(tributes_alive) :
                    /\ tributes_alive[k] \notin Participating(CurrentRound')
                    /\ died_in_round'[tributes_alive[k]] = Undefined
                    /\ tributes_alive[k] \in Members(tributes_alive')
              /\ \A t \in Members(CurrentRound.died_this_round) :
                    t \notin Members(tributes_alive')
              /\ tributes_died' = tributes_died \o CurrentRound.died_this_round
        /\ (pc = "return" /\ locals.exhausted) =>
              /\ pc' = "returned"
              /\ result'.kind = "snapshot"
              /\ result'.tributes_alive = tributes_alive
              /\ result'.tributes_died = tributes_died
              /\ rounds' = rounds
              /\ tributes_alive' = tributes_alive
      ]_vars

\* A round of three tributes has returned a snapshot after it ran out of
\* attempts for the third, with an event and a death accepted before.
C23_Witness ==
    /\ pc = "returned"
    /\ locals.exhausted
    /\ result.kind = "snapshot"
    /\ Len(CurrentRound.game_events) = 1
    /\ Len(CurrentRound.died_this_round) = 1
    /\ locals.tributes_left = 1
    /\ Len(tributes_alive) = 2

\* C24, as claimed: within a round, once an accepted event has left fewer
\* than two tributes without a window, no further event is selected.
\* Violated by a round of three tributes: an event binds two of them, both
\* or one of them alive after it, and an event of one tribute binds the third.
C24_StopsBelowTwoUnwindowed ==
    [][ (locals.current_tribute > 0 /\ locals.tributes_left < 2)
          => locals'.current_tribute = locals.current_tribute ]_vars

\* C24, amended: within a round, once an accepted event has left fewer than
\* two of the round's tributes alive, no further event is selected: the
\* tributes without a window then get no event in that round.
C24_StopsBelowTwoAlive ==
    [][ (locals.current_tribute > 0 /\ locals.tributes_alive < 2)
          => /\ locals'.current_tribute = locals.current_tribute
             /\ pc \in {"finish", "return", "returned", "thrown"}
             /\ pc # "thrown" =>
                   Len(CurrentRound'.game_events) = Len(CurrentRound.game_events) ]_vars

\* A round of three tributes has ended with one tribute left alive, who had
\* no event.
C24_Witness ==
    /\ pc = "returned"
    /\ ~locals.exhausted
    /\ locals.tributes_left = 1
    /\ locals.tributes_alive = 1
    /\ locals.current_tribute = 2
    /\ Len(tributes_alive) = 1
    /\ tributes_alive[1] \notin Participating(CurrentRound)

\* What the events a round lists credit the tribute t with: the fatality
\* slots of the event, times the killer slots that bind t when per_slot, once
\* when not.
RECURSIVE KillsCredited(_, _, _, _)
KillsCredited(round, t, per_slot, k) ==
    IF k = 0 THEN 0
    ELSE LET bound == round.game_events[k]
             slots == { j \in 1..Len(bound.event.killers) :
                          bound.players_involved[bound.event.killers[j] + 1] = t }
             times == IF per_slot THEN Cardinality(slots)
                      ELSE IF slots = {} THEN 0 ELSE 1
         IN  Len(bound.event.fatalities) * times
               + KillsCredited(round, t, per_slot, k - 1)

\* C25, as claimed: an accepted event with F fatality slots raises the kill
\* counter of each tribute bound to a killer slot by exactly F and no other
\* counter; no other operation changes a counter, and none ever goes down.
\* Stated over a call that returns a snapshot: a round raises the counter of
\* a tribute by the sum of F over its events that bind the tribute to a
\* killer slot.
\* Violated by an event that names one tribute in two killer slots: the
\* counter goes up by 2F.
C25_KillersCreditedOnce ==
    [][ /\ \A t \in DOMAIN kills : kills'[t] >= kills[t]
        /\ rounds' = rounds => kills' = kills
        /\ (rounds' # rounds /\ result'.kind = "snapshot") =>
              \A t \in DOMAIN kills :
                 kills'[t] = kills[t]
                   + KillsCredited(rounds'[Len(rounds')], t, FALSE,
                                   Len(rounds'[Len(rounds')].game_events))
      ]_vars

\* C25, amended: an accepted event with F fatality slots raises the kill
\* counter of a tribute by F for every killer slot the tribute is bound to,
\* and no other counter; no other operation changes a counter, and none ever
\* goes down.  (A round that threw has credited the killers of the event it
\* could not compose and does not list the event.)
C25_KillersCreditedPerSlot ==
    [][ /\ \A t \in DOMAIN kills : kills'[t] >= kills[t]
        /\ rounds' = rounds => kills' = kills
        /\ rounds' # rounds =>
              \A t \in DOMAIN kills :
                 LET credited == KillsCredited(rounds'[Len(rounds')], t, TRUE,
                                               Len(rounds'[Len(rounds')].game_events))
                 IN  IF result'.kind = "snapshot"
                     THEN kills'[t] = kills[t] + credited
                     ELSE kills'[t] >= kills[t] + credited
      ]_vars

\* A tribute has been credited in two rounds, in one of them by an event
\* that names it in two killer slots.
C25_Witness ==
    /\ Len(rounds) >= 2
    /\ \E t \in DOMAIN kills :
          /\ kills[t] >= 3
          /\ \E i \in 1..Len(rounds) : \E k \in 1..Len(rounds[i].game_events) :
                /\ rounds[i].game_events[k].event = EventDoubleCredit
                /\ rounds[i].game_events[k].players_involved[1] = t

\* C26: in the round a call has simulated, the events bind pairwise disjoint
\* lists of tributes, every tribute bound was alive when the round started,
\* every event binds exactly players_involved tributes, and the died list of
\* the round is the tributes its events bind to fatality slots.
\* The code violates it after a round that threw: that round lists dead the
\* event of which it does not list, and the next round binds tributes who
\* died in it, as they are still in the alive list.
C26_RoundWellFormed ==
    [][ rounds' # rounds =>
          LET round == rounds'[Len(rounds')]
              events == round.game_events
          IN  /\ \A j, k \in 1..Len(events) :
                    j # k => Members(events[j].players_involved)
                               \cap Members(events[k].players_involved) = {}
              /\ \A k \in 1..Len(events) :
                    /\ Len(events[k].players_involved) = events[k].event.players_involved
                    /\ Cardinality(Members(events[k].players_involved))
                         = events[k].event.players_involved
                    /\ \A t \in Members(events[k].players_involved) :
                          /\ t \in Members(tributes_alive)
                          /\ died_in_round[t] = Undefined
              /\ Members(round.died_this_round)
                   = UNION { { events[k].players_involved[events[k].event.fatalities[f] + 1] :
                                 f \in 1..Len(events[k].event.fatalities) } :
                             k \in 1..Len(events) }
      ]_vars

\* The slots of the placeholders the composer resolves in the template m.
ResolvedSlots(m) ==
    { DigitValue(m[i + 1]) : i \in { j \in 1..Len(m) : PlaceholderAt(m, j) = "name" } }
      \cup
    { DigitValue(m[i + 2]) : i \in { j \in 1..Len(m) : PlaceholderAt(m, j) = "text" } }

\* C27: CalculateTributesInvolved(template) is 1 + the highest slot of the
\* placeholders the composer resolves in the template (%d and %Xd for X one
\* of N A G R s y i h e ! w), and 0 when it has none.
\* The code violates it: its regular expression knows neither %e nor %w.
C27_CountsResolvedSlots ==
    made.status # "none" =>
      CalculateTributesInvolved(made.message)
        = (IF ResolvedSlots(made.message) = {} THEN 0
           ELSE 1 + (CHOOSE d \in ResolvedSlots(made.message) :
                        \A e \in ResolvedSlots(made.message) : e <= d))

\* C28: the composed message of a template that ends with a placeholder %d,
\* d < players_involved, ends with the name of participant d, and no literal
\* segment of it holds the text %d of that placeholder.
\* The code violates it: after the name it pushes the placeholder once more,
\* as a literal.
C28_EndsWithName ==
    LET m == composition.message
        d == m[Len(m)]
        segments == composition.segments
    IN  (/\ made.status = "made"
         /\ composition.status = "done"
         /\ composition.error = "none"
         /\ Len(m) >= 2
         /\ PlaceholderAt(m, Len(m) - 1) = "name")
          => /\ segments[Len(segments)]
                  = NameSegment(composition.players[DigitValue(d) + 1])
             /\ \A k \in 1..Len(segments) :
                   segments[k].kind = "lit" =>
                     \A i \in 1..(Len(segments[k].text) - 1) :
                        ~(segments[k].text[i] = "%" /\ segments[k].text[i + 1] = d)

\* C29: the death buffer is emptied only by a call made in state NEW_ROUND,
\* and the tributes_died of a snapshot whose state after the call is not END
\* is the died lists, in round order, of the rounds simulated since the last
\* call made in NEW_ROUND, that call included.  Call by call, for the calls
\* that return such a snapshot: the snapshot lists the buffer; after a call
\* in NEW_ROUND the buffer is the died list of the round simulated; after a
\* call in IN_ROUND it is the buffer before with the died list of the round
\* appended, and it ends with the died lists of the last two rounds (the
\* state was IN_ROUND, so the call before simulated a round too, and no
\* call in NEW_ROUND came after it); after any other call it is the buffer
\* before.
\* The code violates it after a round that threw: the round lists its dead,
\* the buffer never gets them.
C29_BufferIsRoundsSince ==
    [][ Ticked =>
          /\ state # "NEW_ROUND" =>
                /\ Len(tributes_died') >= Len(tributes_died)
                /\ SubSeq(tributes_died', 1, Len(tributes_died)) = tributes_died
          /\ state \notin RoundStates => tributes_died' = tributes_died
          /\ (result'.kind = "snapshot" /\ state' # "END") =>
                /\ result'.tributes_died = tributes_died'
                /\ state = "NEW_ROUND" =>
                      tributes_died' = rounds'[Len(rounds')].died_this_round
                /\ state = "IN_ROUND" =>
                      LET last_two == rounds[Len(rounds)].died_this_round
                                        \o rounds'[Len(rounds')].died_this_round
                          n == Len(tributes_died')
                      IN  /\ tributes_died'
                               = tributes_died \o rounds'[Len(rounds')].died_this_round
                          /\ Len(last_two) <= n
                          /\ SubSeq(tributes_died', n - Len(last_two) + 1, n) = last_two
      ]_vars

\* C30: the history grows by one round in every call made in NEW_ROUND or
\* IN_ROUND and is the same after any other call; the index of a round is
\* its position in the history; no call changes a round that was in the
\* history before it.
C30_HistoryAppendOnly ==
    [][ /\ (Ticked /\ state \in RoundStates) => Len(rounds') = Len(rounds) + 1
        /\ (~Ticked \/ state \notin RoundStates) => rounds' = rounds
        /\ \A i \in 1..Len(rounds') : rounds'[i].index = i - 1
        /\ \A i \in 1..Len(rounds) :
              /\ rounds'[i].stage = rounds[i].stage
              /\ rounds'[i].game_events = rounds[i].game_events
              /\ rounds'[i].died_this_round = rounds[i].died_this_round
      ]_vars

\* The game has ended after three rounds, the first with an event and a
\* death, and has shown a screen since.
C30_Witness ==
    /\ Len(rounds) = 3
    /\ Len(rounds[1].game_events) >= 1
    /\ Len(rounds[1].died_this_round) >= 1
    /\ state = "END_WINNER"

\* C31: shuffle(array) returns a permutation of its input, and for an input
\* of two or more elements every ordering of it, the input order included,
\* is a possible result.  Read on the alive list as shuffle(this.tributes_alive)
\* has left it at the start of the first round, the input being the roster.
\* The code violates it: randomInt(0, i) never draws i, so an element never
\* stays in place (Sattolo's algorithm): of two elements the only result is
\* the swap.
C31_ShuffleIsUniform ==
    pc \in {"draw", "finish"} =>
      LET n == Len(tributes)
          orderings == { p \in [1..n -> Members(tributes)] :
                           \A a, b \in 1..n : a # b => p[a] # p[b] }
      IN  /\ tributes_alive \in orderings
          /\ shuffle(tributes) \subseteq orderings
          /\ n >= 2 => orderings \subseteq shuffle(tributes)

\* C32: a call of AdvanceGame() that simulates a round of a stage whose event
\* pool is empty appends the round with no events and no deaths, leaves the
\* alive tributes, the death records and the kill counts as they were,
\* returns a snapshot and no Error, and leaves the state the transition rules
\* give: END_RESULTS when fewer than two tributes are alive or all_won is
\* set, else THE_FALLEN after a night, else IN_ROUND.
C32_EmptyPoolRound ==
    [][(state \in RoundStates /\ Ticked /\ Len(event_list[stage']) = 0) =>
          /\ Len(rounds') = Len(rounds) + 1
          /\ SubSeq(rounds', 1, Len(rounds)) = rounds
          /\ rounds'[Len(rounds')].game_events = << >>
          /\ rounds'[Len(rounds')].died_this_round = << >>
          /\ rounds'[Len(rounds')].stage = stage'
          /\ Members(tributes_alive') = Members(tributes_alive)
          /\ Len(tributes_alive') = Len(tributes_alive)
          /\ died_in_round' = died_in_round
          /\ kills' = kills
          /\ result'.kind = "snapshot"
          /\ state' = IF Len(tributes_alive') < 2 \/ all_won THEN "END_RESULTS"
                       ELSE IF stage' = "night" THEN "THE_FALLEN"
                       ELSE "IN_ROUND"]_vars

\* A night round of an empty pool has just ended the game of two living tributes.
C32_Witness ==
    /\ state = "END_RESULTS"
    /\ stage = "night"
    /\ Len(event_list[stage]) = 0
    /\ Len(tributes_alive) >= 2
    /\ rounds[Len(rounds)].game_events = << >>
    /\ result.kind = "snapshot"

\* C33: after any sequence of Tag.for calls and clears of the registry, the
\* id of every registered tag is its (zero-based) index in the list of
\* registered tags.  The code violates it: the clear empties the list and
\* leaves Tag.__next_id where it was, so the first tag created after a clear
\* is at index 0 with the id the counter had reached.
C33_IdIsRegistryIndex ==
    \A k \in 1..Len(registered_tags) : registered_tags[k] = k - 1

\* C34: after Configuration.Load of a version-1 configuration every tag
\* named in the configuration's tags list is registered; hence after
\* Load(overwrite = true) of the result of Save the registered tag names are
\* those registered when Save was called.  The code violates both:
\* V1.TagExists returns true for every stored tag, so LoadTags calls the
\* loader for none, and a tag is registered only when an event requires it.
C34_LoadRegistersTags ==
    tag_call.op = "load" =>
        /\ \A k \in 1..Len(tag_call.tags) : NameTaken(tag_call.tags[k])
        /\ (tag_call.overwrite /\ tag_call.from_save) =>
               Members(SaveTags) = Members(tag_call.tags)

\* C35: after every AdvanceGame() call that returned a snapshot, the alive
\* list holds exactly the tributes of the roster without a death record,
\* each once; the tributes with a death record are exactly the members of
\* the died lists of the rounds, each in one round's list, once; and the
\* alive and the dead add up to the roster.  The code violates it after a
\* round that threw: the dead of that round stay in the alive list.
C35_AliveAndDeadPartition ==
    result.kind = "snapshot" =>
      LET dead == { t \in Members(tributes) : died_in_round[t] # Undefined }
          Listed(t) == { <<i, k>> \in (1..Len(rounds)) \X (1..Len(tributes)) :
                           /\ k <= Len(rounds[i].died_this_round)
                           /\ rounds[i].died_this_round[k] = t }
      IN  /\ Members(tributes_alive) = Members(tributes) \ dead
          /\ \A a, b \in 1..Len(tributes_alive) :
                 a # b => tributes_alive[a] # tributes_alive[b]
          /\ \A t \in Members(tributes) :
                 Cardinality(Listed(t)) = IF t \in dead THEN 1 ELSE 0
          /\ Len(tributes_alive) + Cardinality(dead) = Len(tributes)

C37_DayNightCounters ==
    /\ days_passed = nights_passed
    /\ [][Ticked =>
            /\ days_passed' - nights_passed' \in {0, 1}
            /\ days_passed' >= days_passed
            /\ nights_passed' >= nights_passed
            /\ Len(rounds') = Len(rounds) =>
                   (days_passed' = days_passed /\ nights_passed' = nights_passed)
            /\ Len(rounds') = Len(rounds) + 1 =>
                   LET played == rounds'[Len(rounds')].stage
                   IN  /\ played = "day" =>
                            /\ days_passed' = days_passed + 1
                            /\ nights_passed' = nights_passed
                            /\ days_passed' - nights_passed' = 1
                            /\ game_title' = Title("Day", days_passed')
                       /\ played = "night" =>
                            /\ nights_passed' = nights_passed + 1
                            /\ days_passed' = days_passed
                            /\ days_passed' - nights_passed' = 0
                            /\ rounds[Len(rounds)].stage = "day"
                            /\ game_title.text = "Day"
                            /\ game_title' = Title("Night", game_title.number)
                       /\ played \in {"bloodbath", "feast"} =>
                            /\ days_passed' = days_passed
                            /\ nights_passed' = nights_passed
          ]_vars

\* The night of day 3 has been played in a game that started on day 3.
C37_Witness ==
    /\ stage = "night"
    /\ game_title = Title("Night", 3)
    /\ days_passed = 3
    /\ nights_passed = 3
    /\ Len(rounds) = 3
    /\ result.kind = "snapshot"

\* C38: in every state AdvanceGame() calls lead to, the internal state is
\* one of NEW_ROUND, IN_ROUND, THE_FALLEN, END_RESULTS, END_WINNER,
\* END_SUMMARY_FATALITIES, END_SUMMARY_STATS and END, and never DEAD; after
\* a call that returned an Error it is IN_ROUND.
C38_NeverDead ==
    /\ state \in RoundStates \cup {"THE_FALLEN"} \cup EndStates
    /\ state # "DEAD"
    /\ result.kind = "error" => state = "IN_ROUND"

\* A call has returned the Error of a round that threw, in the second round
\* or later.
C38_Witness ==
    /\ result.kind = "error"
    /\ state = "IN_ROUND"
    /\ Len(rounds) >= 2
    /\ ~RoundCompleted(rounds[Len(rounds)])

=============================================================================
